---- MODULE Spec2Model ----
(***************************************************************************)
(* libretto: a uniform lifecycle contract over virtual machine backends.   *)
(* The model covers the polling loops, the state translators and the       *)
(* lifecycle handlers of the OpenStack, Azure (classic and ARM), Google    *)
(* and Exoscale adapters.  One VM handle is driven by one caller; the      *)
(* backend answers every call nondeterministically.                        *)
(***************************************************************************)
EXTENDS Integers, Sequences, FiniteSets, TLC

(***************************************************************************)
(* Bounds.  The poll timeouts are probe counts in the source (one probe    *)
(* per second: 900, 900 and 90); the model keeps the loops and scales the  *)
(* counts down.  MaxProbes caps the probe history of the loops that have   *)
(* no counter of their own.                                                *)
(***************************************************************************)
ActionTimeout == 4
WaitForReadyTimeout == 3
VolumeActionTimeout == 3
actionTimeout == 3
MaxProbes == 5
(***************************************************************************)
(* Canonical lifecycle states (package virtualmachine).                    *)
(***************************************************************************)
VMStarting == "starting"
VMRunning == "running"
VMHalted == "halted"
VMSuspended == "suspended"
VMPending == "pending"
VMError == "error"
VMUnknown == "unknown"

CanonicalStates ==
  {VMStarting, VMRunning, VMHalted, VMSuspended, VMPending, VMError, VMUnknown}

(***************************************************************************)
(* Backend status tokens.                                                  *)
(***************************************************************************)
StateActive == "ACTIVE"
StateShutOff == "SHUTOFF"
StateError == "ERROR"

\* OpenStack server statuses; BUILD is one the adapter does not name.
OSStatuses == {StateActive, StateShutOff, StateError, "BUILD"}

Running == "VM running"
Stopped == "VM stopped"
Succeeded == "Succeeded"

\* ARM power states (InstanceView display status) and deployment states.
ARMStatuses ==
  {"VM starting", "VM deploying", Running, Stopped, "VM deleting",
   "VM suspending", "VM stopping"}
ARMDeployStates == {"Accepted", "Running", Succeeded, "Failed"}

\* Azure classic deployment statuses, as listed at VM.GetState.
AzureStatuses ==
  {"Starting", "Deploying", "Running", "Suspended", "Deleting", "Suspending",
   "RunningTransitioning", "SuspendedTransitioning"}

\* Every status string the translators are applied to, with strings that no
\* backend documents (the empty string among them).
StatusStrings ==
  OSStatuses \cup ARMStatuses \cup ARMDeployStates \cup AzureStatuses
    \cup {"", "UNKNOWN", "running"}

(***************************************************************************)
(* State translators.                                                      *)
(***************************************************************************)
\* azure.VM.translateState
azureTranslateState(azureState) ==
  CASE azureState \in {"Starting", "Deploying"} -> VMStarting
    [] azureState = "Running" -> VMRunning
    [] azureState = "Suspended" -> VMHalted
    [] azureState \in {"Deleting", "Suspending", "RunningTransitioning"} -> VMPending
    [] OTHER -> VMUnknown

armTranslateStatePassThrough(azureState) ==
  CASE azureState \in {"VM starting", "VM deploying"} -> VMStarting
    [] azureState = Running -> VMRunning
    [] azureState = Stopped -> VMHalted
    [] azureState \in {"VM deleting", "VM suspending"} -> VMPending
    [] OTHER -> azureState

\* arm.translateState
armTranslateState(azureState) ==
  CASE azureState \in {"VM starting", "VM deploying"} -> VMStarting
    [] azureState = Running -> VMRunning
    [] azureState = Stopped -> VMHalted
    [] azureState \in {"VM deleting", "VM suspending"} -> VMPending
    [] OTHER -> VMUnknown

\* The status mapping at the end of openstack.VM.GetState.
openstackTranslateState(status) ==
  IF status = StateActive THEN VMRunning
  ELSE IF status = StateShutOff THEN VMHalted
  ELSE IF status = StateError THEN VMError
  ELSE VMUnknown

(***************************************************************************)
(* Errors.  An error value is its identity (the sentinel or the message    *)
(* format) and, where the message is built with a %s, what was formatted   *)
(* into it.                                                                *)
(***************************************************************************)
E(name) == [err |-> name, detail |-> ""]
Wrap(name, inner) == [err |-> name, detail |-> inner]
Nil == E("nil")
ErrNoInstanceID == E("ErrNoInstanceID")
ErrActionTimeout == E("ErrActionTimeout")
ErrAuthenticatingClient == E("ErrAuthenticatingClient")
ErrVMInfoFailed == E("ErrVMInfoFailed")
ErrSuspendNotSupported == E("ErrSuspendNotSupported")
ErrResumeNotSupported == E("ErrResumeNotSupported")
ErrSourceNotSpecified == E("ErrSourceNotSpecified")
ErrDestNotSpecified == E("ErrDestNotSpecified")
ErrCreatingVM == E("ErrCreatingVM")
ErrDeletingVM == E("ErrDeletingVM")
ErrVMBootTimeout == E("ErrVMBootTimeout")

volumeStateAvailable == "available"
volumeStateInUse == "in-use"
volumeStateDeleted == "nil"
volumeStateErrorDeleting == "error_deleting"

\* Volume statuses of the block storage service.
VolStatuses ==
  {"creating", volumeStateAvailable, volumeStateInUse, "error",
   volumeStateErrorDeleting}

Adapters == {"openstack", "armv1", "arm", "google", "exoscale", "azure", "vmrun"}

\* The functions of the library that are exercised apart from a VM handle;
\* the variable adapter names the adapter of the handle or one of these.
Functions == {"getClient", "Run", "Random", "WaitVMCreation", "waitUntilReady"}

\* The width of an int in the model, the ints of that width, and the value
\* an int of that width holds after an arithmetic result x.
IntBits == 4

MinInt == -(2 ^ (IntBits - 1))

MaxInt == 2 ^ (IntBits - 1) - 1

Ints == MinInt..MaxInt

Int_(x) == ((x - MinInt) % (2 ^ IntBits)) + MinInt

\* The requests the polling goroutine of one WaitVMCreation makes at most.
MaxRequests == 3

\* WaitVMCreation of a handle with a JobID, at its select: the goroutine
\* (at g) is about to send its first request, the channels jobCh and errCh
\* (of capacity 1) are empty; n counts the requests sent.
WaitStarted ==
  [kind |-> "WaitVMCreation", at |-> "select", result |-> "none",
   g |-> "Request", jobCh |-> 0, errCh |-> 0, n |-> 0]

\* vmrun waitUntilReady after its first go statement: the caller is at the
\* first select, the Start goroutine has not run yet, the IP-polling
\* goroutine does not exist; the channels errorChannel, quit and success (of
\* capacity 1) are empty; ips tells whether vm.ips holds an address.
ReadyStarted ==
  [kind |-> "waitUntilReady", at |-> "select1", r |-> [err |-> "none", detail |-> ""],
   start |-> "Start", poller |-> "none", errorChannel |-> <<>>, quit |-> <<>>,
   success |-> <<>>, ips |-> FALSE]

\* A call of util.Random(min, max) that has not run yet.
RandomCalls ==
  [kind : {"Random"}, min : Ints, max : Ints, at : {"called"}, v : {0}]

\* The goroutines that call getClient, and how many calls they make in all.
Goroutines == {1, 2}
MaxGetClientCalls == 3

\* The process-wide state before anything ran: no client is cached, the
\* mutex is free, no goroutine is in getClient.  client is 0 for nil and
\* otherwise tells which construction built it; auths counts the
\* constructions tried and built those that succeeded.
NoProc == [kind |-> "none"]
\* from is the PublishSettings the cached client was built from ("" when
\* there is none), and a result tells those of the client it holds.
ClientCache ==
  [kind |-> "getClient", client |-> 0, from |-> "", mu |-> 0, ncalls |-> 0,
   auths |-> 0, built |-> 0, at |-> [t \in Goroutines |-> "idle"],
   res |-> [t \in Goroutines |-> [client |-> 0, from |-> "", err |-> E("none")]]]

\* Each goroutine calls getClient on a handle of its own, and the two
\* handles name different files in vm.PublishSettings.
PublishSettings(t) == IF t = 1 THEN "a.publishsettings" ELSE "b.publishsettings"

\* How many entries of a backend catalog bear the name a handle gives.
Matches == {"zero", "one", "many"}

\* The names an Exoscale handle gives instead of identifiers.
EXONames == {"template", "offering", "group", "zone"}

VARIABLES
  adapter,   \* the backend of the handle
  vm,        \* the VM handle (the fields the handlers read and write)
  be,        \* the backend: which resources exist
  pc,        \* "idle", or the poll loop / continuation the handler is at
  op,        \* the handler in progress, or the last one that returned
  loop,      \* the poll loop the record (target, i, hist, perr) is of
  target,    \* the state the current poll loop waits for
  i,         \* the loop counter of the current poll loop
  hist,      \* what the backend answered to the probes of that loop
  calls,     \* the backend calls of the handler, polls' probes excepted
  perr,      \* the error the last poll loop returned to its handler
  ret,       \* the error the last handler returned
  out,       \* the value the last handler returned with it
  proc       \* what is shared in the process: the client cache and its
             \* goroutines (no part of a VM handle)

vars == <<adapter, vm, be, pc, op, loop, target, i, hist, calls, perr, ret, out,
          proc>>

\* vmrunRunner.Run after cmd.Start() and time.AfterFunc: the command runs,
\* the timer is armed, the variable err holds the nil that Start returned,
\* and the caller is about to wait for the command.
ErrVmrunTimeout == E("ErrVmrunTimeout")
RunStarted ==
  [kind |-> "Run", process |-> "running", timer |-> "armed", err |-> Nil,
   at |-> "Wait", e |-> E("none"), result |-> {}]

\* lvm.WrapErrors: an error that includes the errors given that are not nil.
WrapErrors(err, e) == {err, e} \ {Nil}

\* The variables of the one VM handle and its handler.
handle == <<vm, be, pc, op, loop, target, i, hist, calls, perr, ret, out>>

NoOut == ""

\* The name a caller gives the machine in the handle, and the names a
\* listing of the backend can show for a machine.
HandleName == "web"

DisplayNames == {"web", "db"}

\* A handle as its caller filled it in, before any handler ran on it, and
\* the backend as it then is.  An OpenStack or vmrun handle is new; a handle
\* of the other adapters is new or names a machine (that exists or not).  A
\* catalog matters to a handle that resolves a name in it.
Init ==
  /\ adapter \in Adapters \cup Functions
  /\ proc \in CASE adapter = "getClient" -> {ClientCache}
                [] adapter = "Run" -> {RunStarted}
                [] adapter = "Random" -> RandomCalls
                [] adapter = "WaitVMCreation" -> {WaitStarted}
                [] adapter = "waitUntilReady" -> {ReadyStarted}
                [] OTHER -> {NoProc}
  /\ vm \in [InstanceID : IF adapter \in {"openstack", "vmrun"} THEN {""}
                                                               ELSE {"", "vm1"},
             computeClient : {FALSE},
             FloatingIP : {FALSE},
             FloatingIPPool : IF adapter = "openstack" THEN {"", "pool"} ELSE {""},
             VolumeSize : IF adapter = "openstack" THEN {0, 10} ELSE {0},
             VolumeID : {""},
             ImageID : IF adapter = "openstack" THEN {"", "img1"} ELSE {""},
             ImageName : IF adapter = "openstack" THEN {"", "new-image"} ELSE {""},
             JobID : {""},
             Name : {HandleName},
             Resolved : {{}},
             Creds : IF adapter \in {"armv1", "arm"} THEN {"", "creds"} ELSE {"creds"},
             Src : IF adapter = "vmrun" THEN {"", "src.vmx"} ELSE {""},
             Dst : IF adapter = "vmrun" THEN {"", "dst"} ELSE {""}]
  /\ be \in [server : IF adapter = "openstack" THEN {"none"} ELSE {"none", "up"},
             fip : {"none"},
             vol : {"none"},
             service : IF adapter = "azure" THEN {"none", "shared"} ELSE {"none"},
             images : IF adapter = "openstack" THEN Matches ELSE {"one"},
             templates : IF adapter = "exoscale" THEN Matches ELSE {"one"},
             offerings : IF adapter = "exoscale" THEN Matches ELSE {"one"},
             groups : IF adapter = "exoscale" THEN {"zero", "one"} ELSE {"one"},
             zones : IF adapter = "exoscale" THEN Matches ELSE {"one"}]
  /\ (adapter = "openstack" /\ be.images # "one")
       => (vm.ImageID = "" /\ vm.ImageName # "")
  /\ (adapter = "exoscale" /\ vm.InstanceID = "") => be.server = "none"
  /\ (adapter = "azure" /\ be.server # "none") => be.service # "none"
  /\ (adapter = "exoscale" /\ vm.InstanceID # "")
       => (be.templates = "one" /\ be.offerings = "one" /\ be.groups = "one"
             /\ be.zones = "one")
  /\ (adapter \in {"armv1", "arm"} /\ vm.InstanceID # "") => vm.Creds # ""
  /\ (adapter = "vmrun" /\ be.server # "none") => (vm.Src # "" /\ vm.Dst # "")
  /\ pc = "idle"
  /\ op = "none"
  /\ loop = ""
  /\ target = ""
  /\ i = 0
  /\ hist = <<>>
  /\ calls = <<>>
  /\ perr = E("none")
  /\ ret = E("none")
  /\ out = NoOut

\* The handler returns e (and the value o) to its caller.
Return(e, o) ==
  /\ pc' = "idle"
  /\ ret' = e
  /\ out' = o

\* A handler starts: nothing of the previous one is left.
Begin(name) ==
  /\ pc = "idle"
  /\ op' = name

(***************************************************************************)
(* Bookkeeping shared by the handlers.                                     *)
(***************************************************************************)
\* The handler enters a poll loop (or a step after one).
Enter(label, tgt) ==
  /\ pc' = label
  /\ loop' = label
  /\ target' = tgt
  /\ i' = 0
  /\ hist' = <<>>
  /\ perr' = E("none")
  /\ ret' = E("none")
  /\ out' = NoOut

\* The backend's answers to the calls of one handler, in call order: a call
\* after a failed one is not made, so its answer is not drawn.
Asked(answers) ==
  \A j \in 1..Len(answers) : \A k \in (j + 1)..Len(answers) :
    ~answers[j] => answers[k]

\* The identity service is asked only when no compute client is cached.
AuthAnswers(v) == IF v.computeClient THEN {TRUE} ELSE BOOLEAN

\* The handler returns without having polled.
ReturnNoPoll(e, o) ==
  /\ Return(e, o)
  /\ loop' = ""
  /\ target' = ""
  /\ i' = 0
  /\ hist' = <<>>
  /\ perr' = E("none")

\* GetState returns: the record holds the one answer the backend gave.
ReturnState(e, o, raw) ==
  /\ Return(e, o)
  /\ loop' = ""
  /\ target' = ""
  /\ i' = 0
  /\ hist' = <<raw>>
  /\ perr' = E("none")

\* The handler returns from (or after) a poll loop; the loop's record stays.
ReturnFromPoll(e, o) ==
  /\ Return(e, o)
  /\ UNCHANGED <<loop, target, i>>

(***************************************************************************)
(* OpenStack: clients and queries.                                         *)
(***************************************************************************)
\* getComputeClient: the cached client, or a newly authenticated one (auth
\* is the identity service's answer).
getComputeClient(v, auth) ==
  IF v.computeClient
    THEN [err |-> Nil, calls |-> <<>>, vm |-> v]
    ELSE IF auth
      THEN [err |-> Nil, calls |-> <<"auth">>,
            vm |-> [v EXCEPT !.computeClient = TRUE]]
      ELSE [err |-> ErrAuthenticatingClient, calls |-> <<"auth">>, vm |-> v]

\* What servers.Get(...).Extract() can answer: a status, "nil" (no server
\* object: the server is absent or the query failed), or "undecodable" (a
\* server object together with an error).
ServerProbes(b) ==
  IF b.server = "none" THEN {"nil"} ELSE OSStatuses \cup {"nil", "undecodable"}

\* The backend after a probe: a server under deletion that is no longer
\* found is gone.
ProbedServer(b, r) ==
  IF b.server = "deleting" /\ r = "nil" THEN [b EXCEPT !.server = "none"] ELSE b

\* getServer
getServer(v, auth, r) ==
  IF v.InstanceID = ""
    THEN [server |-> "nil", err |-> ErrNoInstanceID, calls |-> <<>>, vm |-> v]
    ELSE LET c == getComputeClient(v, auth) IN
      IF c.err # Nil
        THEN [server |-> "nil", err |-> c.err, calls |-> c.calls, vm |-> c.vm]
        ELSE IF r = "undecodable"
          THEN [server |-> "nil", err |-> E("ErrRetrieveServer"),
                calls |-> c.calls \o <<"servers.Get">>, vm |-> c.vm]
          ELSE [server |-> r, err |-> Nil,
                calls |-> c.calls \o <<"servers.Get">>, vm |-> c.vm]

\* openstack.VM.GetState
osGetState(v, auth, r) ==
  LET s == getServer(v, auth, r) IN
  IF s.err # Nil
    THEN [state |-> "", err |-> s.err, calls |-> s.calls, vm |-> s.vm]
    ELSE IF s.server = "nil"
      THEN [state |-> "", err |-> ErrVMInfoFailed, calls |-> s.calls, vm |-> s.vm]
      ELSE [state |-> openstackTranslateState(s.server), err |-> Nil,
            calls |-> s.calls, vm |-> s.vm]

(***************************************************************************)
(* OpenStack: the poll loops.  Each operator is the body of one iteration: *)
(* what the loop does with the probe's answer at counter n.                *)
(***************************************************************************)
Continue == [done |-> FALSE, err |-> Nil]
Stop(e) == [done |-> TRUE, err |-> e]

waitUntilNoBreak(n, curState, err, state) ==
  IF err # Nil THEN Stop(err)
  ELSE IF curState = VMError
    THEN Stop(Wrap("ErrFailedToBringVM", state))
    ELSE IF n + 1 < ActionTimeout THEN Continue
    ELSE IF curState # state THEN Stop(ErrActionTimeout) ELSE Stop(Nil)

waitUntilNoFatal(n, curState, err, state) ==
  IF err # Nil THEN Stop(err)
  ELSE IF curState = state THEN Stop(Nil)
  ELSE IF n + 1 < ActionTimeout THEN Continue
  ELSE Stop(ErrActionTimeout)

waitUntilNoTimeoutError(n, curState, err, state) ==
  IF err # Nil THEN Stop(err)
  ELSE IF curState = state THEN Stop(Nil)
  ELSE IF curState = VMError
    THEN Stop(Wrap("ErrFailedToBringVM", state))
    ELSE IF n + 1 < ActionTimeout THEN Continue
    ELSE Stop(Nil)

\* waitUntil
waitUntil(n, curState, err, state) ==
  IF err # Nil THEN Stop(err)
  ELSE IF curState = state THEN Stop(Nil)
  ELSE IF curState = VMError
    THEN Stop(Wrap("ErrFailedToBringVM", state))
    ELSE IF n + 1 < ActionTimeout THEN Continue
    ELSE Stop(ErrActionTimeout)

\* What volumes.Get(...).Extract() can answer: a status, or "nil" (no volume
\* object: the volume is absent or the query failed).
VolumeProbes(b) ==
  IF b.vol = "none" THEN {"nil"} ELSE VolStatuses \cup {"nil"}

ProbedVolume(b, r) ==
  IF b.vol = "deleting" /\ r = "nil" THEN [b EXCEPT !.vol = "none"] ELSE b

\* A waitUntilVolume that goes on after the status error or error_deleting.
waitUntilVolumeNoFatal(n, vol, state) ==
  IF vol = "nil" /\ state = "nil" THEN Stop(Nil)
  ELSE IF vol = "nil" THEN Stop(E("ErrGettingVolumeStatus"))
  ELSE IF vol = state THEN Stop(Nil)
  ELSE IF n + 1 < VolumeActionTimeout THEN Continue
  ELSE Stop(ErrActionTimeout)

\* waitUntilVolume
waitUntilVolume(n, vol, state) ==
  IF vol = "nil" /\ state = "nil" THEN Stop(Nil)
  ELSE IF vol = "nil" THEN Stop(E("ErrGettingVolumeStatus"))
  ELSE IF vol = state THEN Stop(Nil)
  ELSE IF vol = VMError \/ vol = volumeStateErrorDeleting
    THEN Stop(Wrap("ErrFailedToBringVolume", vol))
    ELSE IF n + 1 < VolumeActionTimeout THEN Continue
    ELSE Stop(ErrActionTimeout)

\* The wait at the end of openstack.VM.Destroy: until the server is absent.
destroyWait(n, server, err) ==
  IF err # Nil THEN Stop(err)
  ELSE IF server = "nil" THEN Stop(Nil)
  ELSE IF server = StateError THEN Stop(E("ErrDestroyingVM"))
  ELSE IF n + 1 < ActionTimeout THEN Continue
  ELSE Stop(ErrActionTimeout)

(***************************************************************************)
(* OpenStack: Provision.                                                   *)
(***************************************************************************)
\* What the image listing of findImageIDByName can answer: how many images
\* of the catalog bear the name, or an error of the listing.
ImageAnswers(b) == {b.images, "error"}

Outcome(e, c, v, b, n) == [err |-> e, calls |-> c, vm |-> v, be |-> b, next |-> n]

\* openstack.VM.Provision up to the create call: the clients, the flavor and
\* image lookups, servers.Create.
osProvisionCreate(v, b, auth, flavor, image, upload, create) ==
  LET c == getComputeClient(v, auth)
      c1 == c.calls \o <<"flavors.IDFromName">>
      c2 == IF v.ImageID # "" THEN c1
            ELSE IF v.ImageName = "" THEN c1
            ELSE IF image = "zero" THEN c1 \o <<"images.ListDetail", "createImage">>
            ELSE c1 \o <<"images.ListDetail">>
      v2 == IF v.ImageID = "" THEN [c.vm EXCEPT !.ImageID = "img1"] ELSE c.vm
      b2 == IF v.ImageID = "" /\ image = "zero" THEN [b EXCEPT !.images = "one"] ELSE b
  IN
  IF c.err # Nil
    THEN Outcome(Wrap("ErrComputeClientNotSet", c.err.err), c.calls, c.vm, b, "return")
  ELSE IF ~flavor THEN Outcome(E("ErrNoFlavor"), c1, c.vm, b, "return")
  ELSE IF v.ImageID = "" /\ v.ImageName = ""
    THEN Outcome(Wrap("ErrSearchingImage", "Empty image name"), c2, c.vm, b, "return")
  ELSE IF v.ImageID = "" /\ image = "error"
    THEN Outcome(Wrap("ErrSearchingImage", "Error on retrieving image pages"),
                 c2, c.vm, b, "return")
  ELSE IF v.ImageID = "" /\ image = "many"
    THEN Outcome(Wrap("ErrSearchingImage", "more than one image"), c2, c.vm, b, "return")
  ELSE IF v.ImageID = "" /\ image = "zero" /\ ~upload
    THEN Outcome(E("ErrCreateImage"), c2, c.vm, b, "return")
  ELSE IF ~create
    THEN Outcome(E("ErrServersCreate"), c2 \o <<"servers.Create">>, v2, b2, "return")
  ELSE Outcome(Nil, c2 \o <<"servers.Create">>,
               [v2 EXCEPT !.InstanceID = "srv1"], [b2 EXCEPT !.server = "up"],
               "waitUntil")

\* createAndAttachVolume up to the first wait: the clients and volumes.Create.
createVolume(v, b, c0, bsauth, volCreate) ==
  IF v.InstanceID = "" THEN Outcome(ErrNoInstanceID, c0, v, b, "return")
  ELSE IF ~bsauth
    THEN Outcome(ErrAuthenticatingClient, c0 \o <<"auth">>, v, b, "return")
  ELSE IF ~volCreate
    THEN Outcome(Wrap("ErrCreateVolume", "volumes.Create"),
                 c0 \o <<"auth", "volumes.Create">>, v, b, "return")
  ELSE Outcome(Nil, c0 \o <<"auth", "volumes.Create">>, v,
               [b EXCEPT !.vol = "created"], "waitUntilVolume")

\* openstack.VM.Provision after the server runs: the floating IP, the wait
\* for SSH, and the start of createAndAttachVolume.
osProvisionFloatingIP(v, b, fipCreate, associate, ssh, bsauth, volCreate) ==
  LET v1 == [v EXCEPT !.FloatingIP = TRUE]
      b1 == [b EXCEPT !.fip = "associated"]
      cs == <<"floatingip.Create", "floatingip.Associate", "WaitForSSH">>
  IN
  IF v.FloatingIPPool = "" THEN Outcome(E("ErrEmptyFloatingIPPool"), <<>>, v, b, "return")
  ELSE IF ~fipCreate
    THEN Outcome(E("ErrCreateFloatingIP"), <<"floatingip.Create">>, v, b, "return")
  ELSE IF ~associate
    THEN Outcome(E("ErrAssociateFloatingIP"), SubSeq(cs, 1, 2),
                 v, [b EXCEPT !.fip = "created"], "return")
  ELSE IF ~ssh THEN Outcome(E("ErrSSH"), cs, v1, b1, "return")
  ELSE IF v.VolumeSize > 0 THEN createVolume(v1, b1, cs, bsauth, volCreate)
  ELSE Outcome(Nil, cs, v1, b1, "return")

\* createAndAttachVolume between its two waits: volumeattach.Create.
attachVolume(v, b, attach) ==
  IF ~attach
    THEN Outcome(Wrap("ErrAttachVolume", "volumeattach.Create"),
                 <<"volumeattach.Create">>, v, b, "return")
    ELSE Outcome(Nil, <<"volumeattach.Create">>, v,
                 [b EXCEPT !.vol = "attached"], "waitUntilVolume")

\* createAndAttachVolume after its second wait: the volume is recorded.
recordVolume(v) == [v EXCEPT !.VolumeID = "vol1"]

OS_Provision ==
  /\ adapter = "openstack"
  /\ Begin("Provision")
  /\ vm.InstanceID = ""
  /\ \E auth \in AuthAnswers(vm), flavor \in BOOLEAN, image \in ImageAnswers(be),
        upload \in BOOLEAN, create \in BOOLEAN :
       LET o == osProvisionCreate(vm, be, auth, flavor, image, upload, create) IN
       /\ Asked(<<auth, flavor, upload, create>>)
       /\ vm' = o.vm
       /\ be' = o.be
       /\ calls' = o.calls
       /\ IF o.next = "return" THEN ReturnNoPoll(o.err, NoOut)
          ELSE Enter("waitUntil", VMRunning)
  /\ UNCHANGED <<adapter, proc>>

OS_Provision_floatingIP ==
  /\ pc = "Provision_floatingIP"
  /\ \E fipCreate \in BOOLEAN, associate \in BOOLEAN, ssh \in BOOLEAN,
        bsauth \in BOOLEAN, volCreate \in BOOLEAN :
       LET o == osProvisionFloatingIP(vm, be, fipCreate, associate, ssh,
                                      bsauth, volCreate) IN
       /\ Asked(<<fipCreate, associate, ssh, bsauth, volCreate>>)
       /\ vm' = o.vm
       /\ be' = o.be
       /\ calls' = calls \o o.calls
       /\ IF o.next = "return"
            THEN ReturnFromPoll(o.err, NoOut) /\ UNCHANGED <<hist, perr>>
            ELSE Enter("waitUntilVolume", volumeStateAvailable)
  /\ UNCHANGED <<adapter, proc, op>>

OS_Provision_attach ==
  /\ pc = "Provision_attach"
  /\ \E attach \in BOOLEAN :
       LET o == attachVolume(vm, be, attach) IN
       /\ vm' = o.vm
       /\ be' = o.be
       /\ calls' = calls \o o.calls
       /\ IF o.next = "return"
            THEN ReturnFromPoll(o.err, NoOut) /\ UNCHANGED <<hist, perr>>
            ELSE Enter("waitUntilVolume", volumeStateInUse)
  /\ UNCHANGED <<adapter, proc, op>>

OS_Provision_record ==
  /\ pc = "Provision_record"
  /\ vm' = recordVolume(vm)
  /\ ReturnFromPoll(Nil, NoOut)
  /\ UNCHANGED <<adapter, proc, be, op, hist, calls, perr>>

(***************************************************************************)
(* Poll loops as steps: one action is one iteration (probe, classify,      *)
(* return or sleep).                                                       *)
(***************************************************************************)
\* The iteration ends in the sleep: the loop goes on.
PollContinue(v) ==
  /\ i' = i + 1
  /\ hist' = Append(hist, v)
  /\ UNCHANGED <<pc, loop, target, perr, ret, out>>

\* The iteration of a loop without a counter ends in the sleep; the record
\* keeps the last MaxProbes values.
PollAgain(v) ==
  /\ hist' = IF Len(hist) < MaxProbes THEN Append(hist, v)
                                      ELSE Append(Tail(hist), v)
  /\ UNCHANGED <<pc, loop, target, i, perr, ret, out>>

\* The loop returns e to its handler, which returns herr if that is an error
\* and goes on at nextpc otherwise.
PollDone(v, e, herr, nextpc) ==
  /\ hist' = IF Len(hist) < MaxProbes THEN Append(hist, v)
                                      ELSE Append(Tail(hist), v)
  /\ perr' = e
  /\ UNCHANGED <<loop, target, i>>
  /\ IF herr # Nil THEN Return(herr, NoOut)
     ELSE IF nextpc = "idle" THEN Return(Nil, NoOut)
     ELSE pc' = nextpc /\ UNCHANGED <<ret, out>>

\* Where the handler goes on after a successful waitUntil.
AfterWaitUntil == IF op = "Provision" THEN "Provision_floatingIP" ELSE "idle"

\* A waitUntil whose caller deletes the server and forgets its identifier
\* when the loop timed out.
OS_waitUntilCleansUp ==
  /\ pc = "waitUntil"
  /\ \E r \in ServerProbes(be), auth \in AuthAnswers(vm) :
       LET g == osGetState(vm, auth, r)
           s == waitUntil(i, g.state, g.err, target)
           timeout == s.done /\ s.err = ErrActionTimeout
       IN
       /\ vm' = IF timeout THEN [g.vm EXCEPT !.InstanceID = ""] ELSE g.vm
       /\ calls' = IF timeout THEN Append(calls, "servers.Delete") ELSE calls
       /\ be' = IF timeout THEN [be EXCEPT !.server = "deleting"] ELSE be
       /\ IF s.done THEN PollDone(r, s.err, s.err, AfterWaitUntil)
                    ELSE PollContinue(r)
  /\ UNCHANGED <<adapter, proc, op>>

\* One iteration of waitUntil (called by Provision and Halt).
OS_waitUntil ==
  /\ pc = "waitUntil"
  /\ \E r \in ServerProbes(be), auth \in AuthAnswers(vm) :
       LET g == osGetState(vm, auth, r)
           s == waitUntil(i, g.state, g.err, target)
       IN
       /\ vm' = g.vm
       /\ IF s.done THEN PollDone(r, s.err, s.err, AfterWaitUntil)
                    ELSE PollContinue(r)
  /\ UNCHANGED <<adapter, proc, be, op, calls>>

\* How the callers of waitUntilVolume wrap its error.
VolumeWrap ==
  IF op = "Provision"
    THEN IF target = volumeStateAvailable THEN "ErrCreateVolume" ELSE "ErrAttachVolume"
    ELSE IF target = volumeStateAvailable THEN "ErrDetachVolume" ELSE "ErrDeleteVolume"

\* Where the caller goes on after a successful waitUntilVolume.
AfterWaitUntilVolume ==
  IF op = "Provision"
    THEN IF target = volumeStateAvailable THEN "Provision_attach" ELSE "Provision_record"
    ELSE IF target = volumeStateAvailable
      THEN "Destroy_deleteVolume" ELSE "Destroy_deleteServer"

\* One iteration of waitUntilVolume.  An answer without a volume object says
\* that the volume is absent, or comes from a query that failed (absent is
\* FALSE): the volume is then still what it was.
OS_waitUntilVolume ==
  /\ pc = "waitUntilVolume"
  /\ \E r \in VolumeProbes(be), absent \in BOOLEAN :
       LET s == waitUntilVolume(i, r, target) IN
       /\ (r # "nil" \/ be.vol # "deleting") => absent
       /\ be' = IF absent THEN ProbedVolume(be, r) ELSE be
       /\ IF s.done
            THEN PollDone(r, s.err,
                          IF s.err = Nil THEN Nil ELSE Wrap(VolumeWrap, s.err.err),
                          AfterWaitUntilVolume)
            ELSE PollContinue(r)
  /\ UNCHANGED <<adapter, proc, vm, op, calls>>

(***************************************************************************)
(* OpenStack: Destroy.                                                     *)
(***************************************************************************)
\* deattachAndDeleteVolume up to its first wait.
detachVolume(v, b, c0, bsauth, detach) ==
  IF ~bsauth
    THEN Outcome(ErrAuthenticatingClient, c0 \o <<"auth">>, v, b, "return")
  ELSE IF ~(detach /\ b.vol = "attached" /\ v.VolumeID # "")
    THEN Outcome(Wrap("ErrDetachVolume", "volumeattach.Delete"),
                 c0 \o <<"auth", "volumeattach.Delete">>, v, b, "return")
  ELSE Outcome(Nil, c0 \o <<"auth", "volumeattach.Delete">>, v,
               [b EXCEPT !.vol = "created"], "waitUntilVolume")

\* servers.Delete and what follows it in Destroy.
deleteServer(v, b, c0, delete) ==
  IF ~(delete /\ b.server = "up")
    THEN Outcome(E("ErrServersDelete"), c0 \o <<"servers.Delete">>, v, b, "return")
    ELSE Outcome(Nil, c0 \o <<"servers.Delete">>, v,
                 [b EXCEPT !.server = "deleting"], "destroyWait")

\* openstack.VM.Destroy up to its first wait.
osDestroy(v, b, auth, disassociate, fipDelete, bsauth, detach, delete) ==
  LET c == getComputeClient(v, auth)
      fipOff == disassociate /\ b.fip = "associated"
      c1 == IF ~v.FloatingIP THEN c.calls
            ELSE IF ~fipOff THEN c.calls \o <<"floatingip.Disassociate">>
            ELSE c.calls \o <<"floatingip.Disassociate", "floatingip.Delete">>
      b1 == IF v.FloatingIP /\ fipOff
              THEN [b EXCEPT !.fip = IF fipDelete THEN "none" ELSE "created"]
              ELSE b
  IN
  IF v.InstanceID = "" THEN Outcome(ErrNoInstanceID, <<>>, v, b, "return")
  ELSE IF c.err # Nil
    THEN Outcome(Wrap("ErrComputeClientNotSet", c.err.err), c.calls, c.vm, b, "return")
  ELSE IF v.FloatingIP /\ ~fipOff
    THEN Outcome(E("ErrDisassociateFloatingIP"), c1, c.vm, b1, "return")
  ELSE IF v.FloatingIP /\ ~fipDelete
    THEN Outcome(E("ErrDeleteFloatingIP"), c1, c.vm, b1, "return")
  ELSE IF v.VolumeSize > 0 THEN detachVolume(c.vm, b1, c1, bsauth, detach)
  ELSE deleteServer(c.vm, b1, c1, delete)

OS_Destroy ==
  /\ adapter = "openstack"
  /\ Begin("Destroy")
  /\ \E auth \in AuthAnswers(vm), disassociate \in BOOLEAN, fipDelete \in BOOLEAN,
        bsauth \in BOOLEAN, detach \in BOOLEAN, delete \in BOOLEAN :
       LET o == osDestroy(vm, be, auth, disassociate, fipDelete, bsauth,
                          detach, delete) IN
       /\ Asked(<<auth, disassociate, fipDelete, bsauth, detach, delete>>)
       /\ vm' = o.vm
       /\ be' = o.be
       /\ calls' = o.calls
       /\ IF o.next = "return" THEN ReturnNoPoll(o.err, NoOut)
          ELSE Enter(o.next, IF o.next = "destroyWait" THEN "nil"
                                                        ELSE volumeStateAvailable)
  /\ UNCHANGED <<adapter, proc>>

\* deattachAndDeleteVolume between its two waits: volumes.Delete.
deleteVolume(v, b, volDelete) ==
  IF ~volDelete
    THEN Outcome(Wrap("ErrDeleteVolume", "volumes.Delete"),
                 <<"volumes.Delete">>, v, b, "return")
    ELSE Outcome(Nil, <<"volumes.Delete">>, v,
                 [b EXCEPT !.vol = "deleting"], "waitUntilVolume")

OS_Destroy_deleteVolume ==
  /\ pc = "Destroy_deleteVolume"
  /\ \E volDelete \in BOOLEAN :
       LET o == deleteVolume(vm, be, volDelete) IN
       /\ vm' = o.vm
       /\ be' = o.be
       /\ calls' = calls \o o.calls
       /\ IF o.next = "return"
            THEN ReturnFromPoll(o.err, NoOut) /\ UNCHANGED <<hist, perr>>
            ELSE Enter("waitUntilVolume", volumeStateDeleted)
  /\ UNCHANGED <<adapter, proc, op>>

OS_Destroy_deleteServer ==
  /\ pc = "Destroy_deleteServer"
  /\ \E delete \in BOOLEAN :
       LET o == deleteServer(vm, be, <<>>, delete) IN
       /\ vm' = o.vm
       /\ be' = o.be
       /\ calls' = calls \o o.calls
       /\ IF o.next = "return"
            THEN ReturnFromPoll(o.err, NoOut) /\ UNCHANGED <<hist, perr>>
            ELSE Enter("destroyWait", "nil")
  /\ UNCHANGED <<adapter, proc, op>>

\* One iteration of the wait at the end of Destroy; on success the cached
\* client is dropped.
OS_destroyWait ==
  /\ pc = "destroyWait"
  /\ \E r \in ServerProbes(be), auth \in AuthAnswers(vm), absent \in BOOLEAN :
       LET g == getServer(vm, auth, r)
           s == destroyWait(i, g.server, g.err)
       IN
       \* an answer without a server object says that the server is absent,
       \* or comes from a query that failed (absent is FALSE)
       /\ (r # "nil" \/ be.server # "deleting") => absent
       /\ be' = IF absent THEN ProbedServer(be, r) ELSE be
       /\ vm' = IF s.done /\ s.err = Nil
                  THEN [g.vm EXCEPT !.computeClient = FALSE] ELSE g.vm
       /\ IF s.done THEN PollDone(r, s.err, s.err, "idle")
                    ELSE PollContinue(r)
  /\ UNCHANGED <<adapter, proc, op, calls>>

(***************************************************************************)
(* OpenStack: Halt, Start, Suspend, Resume, GetState, GetIPs.              *)
(***************************************************************************)

\* A Halt that stops the server whatever state it fetched.
osHaltAnyState(v, b, auth, r, stop) ==
  LET c == getComputeClient(v, auth)
      g == osGetState(c.vm, auth, r)
      c1 == c.calls \o g.calls
  IN
  IF v.InstanceID = "" THEN Outcome(ErrNoInstanceID, <<>>, v, b, "return")
  ELSE IF c.err # Nil
    THEN Outcome(Wrap("ErrComputeClientNotSet", c.err.err), c.calls, c.vm, b, "return")
  ELSE IF g.err # Nil THEN Outcome(g.err, c1, g.vm, b, "return")
  ELSE IF ~stop THEN Outcome(E("ErrStop"), c1 \o <<"ss.Stop">>, g.vm, b, "return")
  ELSE Outcome(Nil, c1 \o <<"ss.Stop">>, g.vm, b, "waitUntil")

\* openstack.VM.Halt up to its wait.
osHalt(v, b, auth, r, stop) ==
  LET c == getComputeClient(v, auth)
      g == osGetState(c.vm, auth, r)
      c1 == c.calls \o g.calls
  IN
  IF v.InstanceID = "" THEN Outcome(ErrNoInstanceID, <<>>, v, b, "return")
  ELSE IF c.err # Nil
    THEN Outcome(Wrap("ErrComputeClientNotSet", c.err.err), c.calls, c.vm, b, "return")
  ELSE IF g.err # Nil THEN Outcome(g.err, c1, g.vm, b, "return")
  ELSE IF g.state # VMRunning THEN Outcome(E("ErrNotActive"), c1, g.vm, b, "return")
  ELSE IF ~stop THEN Outcome(E("ErrStop"), c1 \o <<"ss.Stop">>, g.vm, b, "return")
  ELSE Outcome(Nil, c1 \o <<"ss.Stop">>, g.vm, b, "waitUntil")

OS_Halt ==
  /\ adapter = "openstack"
  /\ Begin("Halt")
  /\ \E auth \in AuthAnswers(vm), r \in ServerProbes(be), stop \in BOOLEAN :
       LET o == osHalt(vm, be, auth, r, stop) IN
       /\ Asked(<<auth, stop>>)
       \* an answer that is not read is not drawn
       /\ vm.InstanceID = "" => auth
       /\ (vm.InstanceID = "" \/ ~auth) => r = "nil"
       /\ r # StateActive => stop
       /\ vm' = o.vm
       /\ be' = o.be
       /\ calls' = o.calls
       /\ IF o.next = "return" THEN ReturnNoPoll(o.err, NoOut)
          ELSE Enter("waitUntil", VMHalted)
  /\ UNCHANGED <<adapter, proc>>

\* openstack.VM.Start; ssh is the outcome of waitUntilSSHReady.
osStart(v, b, auth, r, start, ssh) ==
  LET c == getComputeClient(v, auth)
      g == osGetState(c.vm, auth, r)
      c1 == c.calls \o g.calls
  IN
  IF v.InstanceID = "" THEN Outcome(ErrNoInstanceID, <<>>, v, b, "return")
  ELSE IF c.err # Nil
    THEN Outcome(Wrap("ErrComputeClientNotSet", c.err.err), c.calls, c.vm, b, "return")
  ELSE IF g.err # Nil THEN Outcome(g.err, c1, g.vm, b, "return")
  ELSE IF g.state # VMHalted THEN Outcome(E("ErrNotHalted"), c1, g.vm, b, "return")
  ELSE IF ~start THEN Outcome(E("ErrStart"), c1 \o <<"ss.Start">>, g.vm, b, "return")
  ELSE IF ~ssh
    THEN Outcome(E("ErrSSH"), c1 \o <<"ss.Start", "WaitForSSH">>, g.vm, b, "return")
  ELSE Outcome(Nil, c1 \o <<"ss.Start", "WaitForSSH">>, g.vm, b, "return")

OS_Start ==
  /\ adapter = "openstack"
  /\ Begin("Start")
  /\ \E auth \in AuthAnswers(vm), r \in ServerProbes(be), start \in BOOLEAN,
        ssh \in BOOLEAN :
       LET o == osStart(vm, be, auth, r, start, ssh) IN
       /\ Asked(<<auth, start, ssh>>)
       \* an answer that is not read is not drawn
       /\ vm.InstanceID = "" => auth
       /\ (vm.InstanceID = "" \/ ~auth) => r = "nil"
       /\ r # StateShutOff => (start /\ ssh)
       /\ vm' = o.vm
       /\ be' = o.be
       /\ calls' = o.calls
       /\ ReturnNoPoll(o.err, NoOut)
  /\ UNCHANGED <<adapter, proc>>

\* A Suspend that asks the backend before it refuses.
OS_SuspendAsksTheBackend ==
  /\ adapter = "openstack"
  /\ Begin("Suspend")
  /\ calls' = <<"servers.Suspend">>
  /\ ReturnNoPoll(ErrSuspendNotSupported, NoOut)
  /\ UNCHANGED <<adapter, proc, vm, be>>

\* openstack.VM.Suspend
OS_Suspend ==
  /\ adapter = "openstack"
  /\ Begin("Suspend")
  /\ calls' = <<>>
  /\ ReturnNoPoll(ErrSuspendNotSupported, NoOut)
  /\ UNCHANGED <<adapter, proc, vm, be>>

\* openstack.VM.Resume
OS_Resume ==
  /\ adapter = "openstack"
  /\ Begin("Resume")
  /\ calls' = <<>>
  /\ ReturnNoPoll(ErrResumeNotSupported, NoOut)
  /\ UNCHANGED <<adapter, proc, vm, be>>

OS_GetState ==
  /\ adapter = "openstack"
  /\ Begin("GetState")
  /\ \E auth \in AuthAnswers(vm), r \in ServerProbes(be) :
       LET g == osGetState(vm, auth, r) IN
       /\ vm' = g.vm
       /\ calls' = g.calls
       /\ ReturnState(g.err, g.state, r)
  /\ UNCHANGED <<adapter, proc, be>>

\* The texts of the addresses a machine can have: its public address, its
\* private address, its IPv6 address.
PublicAddr == "203.0.113.7"
PrivateAddr == "10.0.0.5"
V6Addr == "2001:db8::1"

\* net.ParseIP: the address a text denotes; the zero value (nil) for a text
\* that denotes none.
NoIP == "nil"
ParseIP(text) ==
  IF text \in {PublicAddr, PrivateAddr, V6Addr} THEN "IP(" \o text \o ")" ELSE NoIP

\* The addresses a backend lists for a machine, as one text (the record of
\* what the backend answered holds texts).
AddrText(addr) == addr.public \o "|" \o addr.private \o "|" \o addr.v6

\* What the backend says of the addresses of a machine: the text of each
\* address, empty for an address the machine does not have.
AddressAnswers ==
  [public : {"", PublicAddr}, private : {"", PrivateAddr}, v6 : {""}]

\* The indices of the two slots of the list GetIPs returns (PublicIP = 0 and
\* PrivateIP = 1 in the source; sequences here start at 1).
PublicIP == 1
PrivateIP == 2

\* The client GetSSH builds for an address, as a text that shows the address.
SSHClient(ip) == "SSHClient{IP: " \o ip \o "}"

ErrVMNoIP == E("ErrVMNoIP")

\* util.GetVMIPs: the addresses of GetIPs (n of them), or an error when
\* GetIPs fails or gives no usable address.
GetVMIPs(ips, n, err) ==
  IF err # Nil THEN [ips |-> "nil", n |-> 0, err |-> err]
  ELSE IF n = 0 THEN [ips |-> "nil", n |-> 0, err |-> ErrVMNoIP]
  ELSE IF \A k \in 1..n : ips[k] = NoIP
    THEN [ips |-> "nil", n |-> 0, err |-> ErrVMNoIP]
  ELSE [ips |-> ips, n |-> n, err |-> Nil]

\* openstack.VM.GetIPs: the error of getServer is dropped unless the server
\* is nil; net is the answer of the network service, addr the addresses the
\* server lists (floating is the public one, fixed the private one).
osGetIPs(v, auth, r, netauth, net, addr) ==
  LET s == getServer(v, auth, r) IN
  IF s.server = "nil"
    THEN [ips |-> "nil", n |-> 0, err |-> s.err, calls |-> s.calls, vm |-> s.vm]
  ELSE IF ~netauth
    THEN [ips |-> "nil", n |-> 0, err |-> ErrAuthenticatingClient,
          calls |-> s.calls \o <<"auth">>, vm |-> s.vm]
  ELSE IF ~net
    THEN [ips |-> "nil", n |-> 0, err |-> E("ErrNetworksGet"),
          calls |-> s.calls \o <<"auth", "networks.Get">>, vm |-> s.vm]
  ELSE [ips |-> [k \in {PublicIP, PrivateIP} |->
                   IF k = PublicIP THEN ParseIP(addr.public)
                                   ELSE ParseIP(addr.private)],
        n |-> 2,
        err |-> Nil,
        calls |-> s.calls \o <<"auth", "networks.Get">>, vm |-> s.vm]

OS_GetIPs ==
  /\ adapter = "openstack"
  /\ Begin("GetIPs")
  /\ \E auth \in AuthAnswers(vm), r \in ServerProbes(be), netauth \in BOOLEAN,
        net \in BOOLEAN, addr \in AddressAnswers :
       LET g == osGetIPs(vm, auth, r, netauth, net, addr) IN
       /\ Asked(<<auth, netauth, net>>)
       \* the status of the server is not read
       /\ r \in {"nil", "undecodable", StateActive}
       /\ vm.InstanceID = "" => auth
       /\ (vm.InstanceID = "" \/ ~auth) => r = "nil"
       /\ r # StateActive => (netauth /\ net)
       /\ (g.err # Nil \/ g.n = 0) => addr = [public |-> "", private |-> "", v6 |-> ""]
       /\ vm' = g.vm
       /\ calls' = g.calls
       /\ ReturnState(g.err, g.ips, AddrText(addr))
  /\ UNCHANGED <<adapter, proc, be>>

\* openstack.VM.GetSSH: a client for the address in the public slot.
OS_GetSSH ==
  /\ adapter = "openstack"
  /\ Begin("GetSSH")
  /\ \E auth \in AuthAnswers(vm), r \in ServerProbes(be), netauth \in BOOLEAN,
        net \in BOOLEAN, addr \in AddressAnswers :
       LET g == osGetIPs(vm, auth, r, netauth, net, addr)
           u == GetVMIPs(g.ips, g.n, g.err) IN
       /\ Asked(<<auth, netauth, net>>)
       \* the status of the server is not read
       /\ r \in {"nil", "undecodable", StateActive}
       /\ vm.InstanceID = "" => auth
       /\ (vm.InstanceID = "" \/ ~auth) => r = "nil"
       /\ r # StateActive => (netauth /\ net)
       /\ (g.err # Nil \/ g.n = 0) => addr = [public |-> "", private |-> "", v6 |-> ""]
       /\ vm' = g.vm
       /\ calls' = g.calls
       /\ ReturnState(u.err,
                      IF u.err = Nil THEN SSHClient(u.ips[PublicIP]) ELSE NoOut,
                      AddrText(addr))
  /\ UNCHANGED <<adapter, proc, be>>

OSNext ==
  \/ OS_GetSSH
  \/ OS_Provision
  \/ OS_waitUntil
  \/ OS_Provision_floatingIP
  \/ OS_waitUntilVolume
  \/ OS_Provision_attach
  \/ OS_Provision_record
  \/ OS_Destroy
  \/ OS_Destroy_deleteVolume
  \/ OS_Destroy_deleteServer
  \/ OS_destroyWait
  \/ OS_Halt
  \/ OS_Start
  \/ OS_Suspend
  \/ OS_Resume
  \/ OS_GetState
  \/ OS_GetIPs

(***************************************************************************)
(* Azure Resource Manager, the Poller version (azure/arm).  The handle's   *)
(* Name is its InstanceID; no handler checks it.                           *)
(***************************************************************************)
Answer(res, e) == [res |-> res, err |-> e]

\* What the Poller's getProvisioningState can answer, by the handler that
\* built it: Halt and Start pass the display status on, Destroy translates
\* it, deploy reads the deployment's provisioning state.  A failed query
\* answers "UNKNOWN" with the error.
PollerAnswers ==
  IF op \in {"Halt", "Start"}
    THEN {Answer(st, Nil) :
            st \in {Running, Stopped, "VM stopping", "VM deallocating"}}
           \cup {Answer("UNKNOWN", E("ErrGet"))}
  ELSE IF op = "Destroy"
    THEN {Answer(armTranslateState(st), Nil) : st \in {Running, "VM deleting"}}
           \cup {Answer("UNKNOWN", E("ResourceNotFound")),
                 Answer("UNKNOWN", E("ErrGet"))}
  ELSE {Answer(st, Nil) : st \in {"Running", Succeeded, "Failed"}}
         \cup {Answer("UNKNOWN", E("ErrGet"))}

\* Poller.PollAsNeeded: the body of one iteration.  The loop has no counter.
PollAsNeeded(n, res, err) ==
  IF err # Nil THEN Stop(err)
  ELSE IF res \in {Running, Stopped, Succeeded} THEN Stop(Nil)
  ELSE Continue

\* What the handler returns once its Poller has returned (res, err).
armv1AfterPoll(h, res, err) ==
  IF h = "Halt"
    THEN IF err # Nil THEN err
         ELSE IF res # Stopped THEN Wrap("ErrHaltFailed", res) ELSE Nil
  ELSE IF h = "Start"
    THEN IF err # Nil THEN err
         ELSE IF res # Running THEN Wrap("ErrStartFailed", res) ELSE Nil
  ELSE IF h = "Destroy"
    THEN IF err # Nil /\ err # E("ResourceNotFound") THEN err ELSE Nil
  ELSE Nil

\* Where the handler goes on after its Poller.
armv1NextPc(h) ==
  IF h = "Destroy" THEN "Destroy_cleanup"
  ELSE IF h = "Provision" THEN "Provision_ssh"
  ELSE "idle"

ARM1_PollAsNeeded ==
  /\ pc = "PollAsNeeded"
  /\ \E a \in PollerAnswers :
       LET s == PollAsNeeded(i, a.res, a.err) IN
       /\ be' = IF op = "Destroy" /\ a.err = E("ResourceNotFound")
                  THEN [be EXCEPT !.server = "none"] ELSE be
       /\ IF s.done
            THEN PollDone(a.res, s.err, armv1AfterPoll(op, a.res, s.err),
                          armv1NextPc(op))
            ELSE PollAgain(a.res)
  /\ UNCHANGED <<adapter, proc, vm, op, calls>>

\* arm.VM.Halt and arm.VM.Start up to the Poller: the power call.
ARM1_Power(h, call, tgt) ==
  /\ adapter = "armv1"
  /\ Begin(h)
  /\ calls' = <<call>>
  /\ \E ok \in BOOLEAN :
       IF ok /\ be.server = "up" /\ vm.InstanceID # ""
         THEN Enter("PollAsNeeded", tgt)
         ELSE ReturnNoPoll(E("Err" \o call), NoOut)
  /\ UNCHANGED <<adapter, proc, vm, be>>

ARM1_Halt == ARM1_Power("Halt", "PowerOff", Stopped)

ARM1_Start == ARM1_Power("Start", "Start", Running)

\* validateVM: every mandatory field of the handle is set (the credentials
\* stand for all of them).
validateVM(v) == IF v.Creds = "" THEN E("ErrValidateVM") ELSE Nil

\* arm.VM.Provision up to the Poller of deploy, whose result Provision
\* drops: a deployment that was not accepted still leads to the SSH wait.
ARM1_Provision ==
  /\ adapter = "armv1"
  /\ Begin("Provision")
  /\ \E token \in BOOLEAN, create \in BOOLEAN :
       LET valid == validateVM(vm) = Nil IN
       /\ Asked(<<token, create>>)
       /\ calls' = IF ~valid THEN <<>>
                   ELSE IF token THEN <<"token", "CreateOrUpdate">> ELSE <<"token">>
       /\ be' = IF valid /\ token /\ create THEN [be EXCEPT !.server = "up"] ELSE be
       /\ IF ~valid THEN ReturnNoPoll(validateVM(vm), NoOut)
          ELSE IF ~token THEN ReturnNoPoll(E("ErrToken"), NoOut)
          ELSE IF ~create THEN Enter("Provision_ssh", "")
          ELSE Enter("PollAsNeeded", Succeeded)
  /\ UNCHANGED <<adapter, proc, vm>>

\* The end of arm.VM.Provision: GetSSH and WaitForSSH, which reach a
\* machine only if there is one.
ARM_Provision_ssh ==
  /\ pc = "Provision_ssh"
  /\ calls' = calls \o <<"WaitForSSH">>
  /\ \E ssh \in BOOLEAN :
       ReturnFromPoll(IF ssh /\ be.server = "up" THEN Nil ELSE E("ErrSSH"), NoOut)
  /\ UNCHANGED <<adapter, proc, vm, be, op, hist, perr>>

\* arm.VM.Destroy up to its Poller.
ARM1_Destroy ==
  /\ adapter = "armv1"
  /\ Begin("Destroy")
  /\ calls' = <<"Delete">>
  /\ \E delete \in BOOLEAN :
       /\ be' = IF delete /\ be.server = "up"
                  THEN [be EXCEPT !.server = "deleting"] ELSE be
       /\ IF delete THEN Enter("PollAsNeeded", "")
                    ELSE ReturnNoPoll(E("ErrDelete"), NoOut)
  /\ UNCHANGED <<adapter, proc, vm>>

\* A cleanup that deletes the public address while the interface still
\* uses it.
ARM_Destroy_cleanupAddressFirst ==
  /\ pc = "Destroy_cleanup"
  /\ \E osFile \in BOOLEAN, nic \in BOOLEAN, publicIP \in BOOLEAN :
       /\ Asked(<<publicIP, nic, osFile>>)
       /\ calls' = calls \o
            (IF ~publicIP THEN <<"deletePublicIP">>
             ELSE IF ~nic THEN <<"deletePublicIP", "deleteNic">>
             ELSE <<"deletePublicIP", "deleteNic", "deleteOSFile">>)
       /\ ReturnFromPoll(IF ~publicIP THEN E("ErrDeletePublicIP")
                         ELSE IF ~nic THEN E("ErrDeleteNic")
                         ELSE IF ~osFile THEN E("ErrDeleteOSFile")
                         ELSE Nil, NoOut)
  /\ UNCHANGED <<adapter, proc, vm, be, op, hist, perr>>

\* The end of arm.VM.Destroy: deleteOSFile, deleteNic, deletePublicIP.
ARM_Destroy_cleanup ==
  /\ pc = "Destroy_cleanup"
  /\ \E osFile \in BOOLEAN, nic \in BOOLEAN, publicIP \in BOOLEAN :
       /\ Asked(<<osFile, nic, publicIP>>)
       /\ calls' = calls \o
            (IF ~osFile THEN <<"deleteOSFile">>
             ELSE IF ~nic THEN <<"deleteOSFile", "deleteNic">>
             ELSE <<"deleteOSFile", "deleteNic", "deletePublicIP">>)
       /\ ReturnFromPoll(IF ~osFile THEN E("ErrDeleteOSFile")
                         ELSE IF ~nic THEN E("ErrDeleteNic")
                         ELSE IF ~publicIP THEN E("ErrDeletePublicIP")
                         ELSE Nil, NoOut)
  /\ UNCHANGED <<adapter, proc, vm, be, op, hist, perr>>

\* What virtualMachinesClient.Get answers to GetState: a display status, or
\* no instance view and an error.
InstanceViews(b) ==
  IF b.server = "none"
    THEN {Answer("", E("ResourceNotFound"))}
    ELSE {Answer(st, Nil) : st \in ARMStatuses} \cup {Answer("", E("ErrGet"))}

\* arm.VM.GetState
armGetState(a) ==
  IF a.err = Nil THEN [state |-> armTranslateState(a.res), err |-> Nil]
                 ELSE [state |-> "", err |-> a.err]

ARM1_GetState ==
  /\ adapter = "armv1"
  /\ Begin("GetState")
  /\ calls' = <<"Get">>
  /\ \E a \in InstanceViews(be) :
       ReturnState(armGetState(a).err, armGetState(a).state, a.res)
  /\ UNCHANGED <<adapter, proc, vm, be>>

\* arm.VM.Suspend and arm.VM.Resume, in both versions of the adapter.
ARM_Suspend ==
  /\ adapter \in {"armv1", "arm"}
  /\ Begin("Suspend")
  /\ calls' = <<>>
  /\ ReturnNoPoll(ErrSuspendNotSupported, NoOut)
  /\ UNCHANGED <<adapter, proc, vm, be>>

ARM_Resume ==
  /\ adapter \in {"armv1", "arm"}
  /\ Begin("Resume")
  /\ calls' = <<>>
  /\ ReturnNoPoll(ErrResumeNotSupported, NoOut)
  /\ UNCHANGED <<adapter, proc, vm, be>>

ARM1Next ==
  \/ ARM1_PollAsNeeded
  \/ ARM1_Halt
  \/ ARM1_Start
  \/ ARM1_Provision
  \/ ARM_Provision_ssh
  \/ ARM1_Destroy
  \/ ARM_Destroy_cleanup
  \/ ARM1_GetState
  \/ ARM_Suspend
  \/ ARM_Resume

(***************************************************************************)
(* Azure Resource Manager, the version with bounded waits.  Every handler  *)
(* and every GetState asks for a service principal token first.            *)
(***************************************************************************)
\* arm.VM.GetState of this version.
arm2GetState(token, a) ==
  IF ~token THEN [state |-> "", err |-> E("ErrToken")] ELSE armGetState(a)

\* The wait of Halt and Start: the body of one iteration.
armWait(n, state, err, tgt) ==
  IF err # Nil THEN Stop(err)
  ELSE IF state = tgt THEN Stop(Nil)
  ELSE IF n + 1 < actionTimeout THEN Continue
  ELSE Stop(ErrActionTimeout)

\* The wait of Destroy: until GetState fails with a not-found error.
armDestroyWait(n, err) ==
  IF err \in {E("ResourceNotFound"), E("NotFound")} THEN Stop(Nil)
  ELSE IF err # Nil THEN Stop(err)
  ELSE IF n + 1 < actionTimeout THEN Continue
  ELSE Stop(ErrActionTimeout)

\* The display statuses the waits are shown (a subset of ARMStatuses).
WaitViews(b) ==
  IF b.server = "none"
    THEN {Answer("", E("ResourceNotFound"))}
    ELSE {Answer(st, Nil) : st \in {Running, Stopped, "VM stopping"}}
           \cup {Answer("", E("ErrGet"))}
           \cup (IF b.server = "deleting"
                   THEN {Answer("", E("ResourceNotFound"))} ELSE {})

ARM2_wait ==
  /\ pc = "armWait"
  /\ \E token \in BOOLEAN, a \in WaitViews(be) :
       LET g == arm2GetState(token, a)
           s == IF op = "Destroy" THEN armDestroyWait(i, g.err)
                                  ELSE armWait(i, g.state, g.err, target)
       IN
       /\ be' = IF token /\ a.err = E("ResourceNotFound")
                  THEN [be EXCEPT !.server = "none"] ELSE be
       /\ IF s.done
            THEN PollDone(IF token THEN a.res ELSE "", s.err, s.err,
                          IF op = "Destroy" THEN "Destroy_cleanup" ELSE "idle")
            ELSE PollContinue(IF token THEN a.res ELSE "")
  /\ UNCHANGED <<adapter, proc, vm, op, calls>>

\* Halt and Start up to the wait: the token and the power call.
ARM2_Power(h, call, tgt) ==
  /\ adapter = "arm"
  /\ Begin(h)
  /\ \E token \in BOOLEAN, ok \in BOOLEAN :
       /\ Asked(<<token, ok>>)
       /\ calls' = IF token THEN <<"token", call>> ELSE <<"token">>
       /\ IF ~token THEN ReturnNoPoll(E("ErrToken"), NoOut)
          ELSE IF ok /\ be.server = "up" /\ vm.InstanceID # ""
            THEN Enter("armWait", tgt)
            ELSE ReturnNoPoll(E("Err" \o call), NoOut)
  /\ UNCHANGED <<adapter, proc, vm, be>>

ARM2_Halt == ARM2_Power("Halt", "PowerOff", VMHalted)

ARM2_Start == ARM2_Power("Start", "Start", VMRunning)

ARM2_Destroy ==
  /\ adapter = "arm"
  /\ Begin("Destroy")
  /\ \E token \in BOOLEAN, delete \in BOOLEAN :
       /\ Asked(<<token, delete>>)
       /\ calls' = IF token THEN <<"token", "Delete">> ELSE <<"token">>
       /\ be' = IF token /\ delete /\ be.server = "up"
                  THEN [be EXCEPT !.server = "deleting"] ELSE be
       /\ IF ~token THEN ReturnNoPoll(E("ErrToken"), NoOut)
          ELSE IF ~delete THEN ReturnNoPoll(E("ErrDelete"), NoOut)
          ELSE Enter("armWait", "")
  /\ UNCHANGED <<adapter, proc, vm>>

ARM2_GetState ==
  /\ adapter = "arm"
  /\ Begin("GetState")
  /\ \E token \in BOOLEAN, a \in InstanceViews(be) :
       LET g == arm2GetState(token, a) IN
       /\ calls' = IF token THEN <<"token", "Get">> ELSE <<"token">>
       /\ ReturnState(g.err, g.state, a.res)
  /\ UNCHANGED <<adapter, proc, vm, be>>

ARM2Next ==
  \/ ARM2_wait
  \/ ARM2_Halt
  \/ ARM2_Start
  \/ ARM2_Destroy
  \/ ARM2_GetState

(***************************************************************************)
(* Google Compute Engine.  The handle's Name is its InstanceID; no handler *)
(* checks it.                                                              *)
(***************************************************************************)
GCEStatuses == {"PROVISIONING", "STAGING", "RUNNING", "STOPPING", "TERMINATED"}

\* What Instances.Get answers to getInstance.
GCEInstances(v, b) ==
  IF b.server = "none" \/ v.InstanceID = ""
    THEN {Answer("", E("no instance found"))}
    ELSE {Answer(st, Nil) : st \in GCEStatuses} \cup {Answer("", E("ErrGet"))}

\* What ZoneOperations.Get answers to the poll of an operation.
GCEOperations ==
  {[status |-> st, failed |-> FALSE, err |-> Nil] : st \in {"PENDING", "RUNNING", "DONE"}}
    \cup {[status |-> "DONE", failed |-> TRUE, err |-> Nil],
          [status |-> "", failed |-> FALSE, err |-> E("ErrGet")]}

\* pullOperationStatus: the body of one iteration.  The loop has no counter.
pullOperationStatus(n, o) ==
  IF o.err # Nil THEN Stop(o.err)
  ELSE IF o.status = "DONE"
    THEN IF o.failed THEN Stop(E("operation error")) ELSE Stop(Nil)
    ELSE Continue

GCE_pullOperationStatus ==
  /\ pc = "pullOperationStatus"
  /\ \E o \in GCEOperations :
       LET s == pullOperationStatus(i, o) IN
       /\ be' = IF op = "Destroy" /\ s.done /\ s.err = Nil
                  THEN [be EXCEPT !.server = "none"]
                ELSE IF op = "Provision" /\ s.done /\ o.status = "DONE"
                  THEN [be EXCEPT !.server = IF o.failed THEN "none" ELSE "up"]
                ELSE be
       /\ IF s.done
            THEN PollDone(IF o.failed THEN "DONE(error)" ELSE o.status,
                          s.err, s.err,
                          IF op = "Provision" THEN "Provision_getInstance" ELSE "idle")
            ELSE PollAgain(o.status)
  /\ UNCHANGED <<adapter, proc, vm, op, calls>>

\* google.VM.Halt and google.VM.Start (with stop and start of the
\* service) up to the poll of the operation.
GCE_Power(h, call) ==
  /\ adapter = "google"
  /\ Begin(h)
  /\ \E svc \in BOOLEAN, a \in GCEInstances(vm, be), ok \in BOOLEAN :
       /\ Asked(<<svc, ok>>)
       /\ calls' = IF ~svc THEN <<"getService">>
                   ELSE IF a.err # Nil THEN <<"getService", "Instances.Get">>
                   ELSE <<"getService", "Instances.Get", call>>
       /\ IF ~svc THEN ReturnNoPoll(E("ErrService"), NoOut)
          ELSE IF a.err # Nil THEN ReturnNoPoll(a.err, NoOut)
          ELSE IF ~ok THEN ReturnNoPoll(E("Err" \o call), NoOut)
          ELSE Enter("pullOperationStatus", "DONE")
  /\ UNCHANGED <<adapter, proc, vm, be>>

GCE_Halt == GCE_Power("Halt", "Instances.Stop")

GCE_Start == GCE_Power("Start", "Instances.Start")

\* google.VM.Destroy (with delete of the service) up to the poll.
GCE_Destroy ==
  /\ adapter = "google"
  /\ Begin("Destroy")
  /\ \E svc \in BOOLEAN, delete \in BOOLEAN :
       /\ Asked(<<svc, delete>>)
       /\ calls' = IF svc THEN <<"getService", "Instances.Delete">>
                          ELSE <<"getService">>
       /\ IF ~svc THEN ReturnNoPoll(E("ErrService"), NoOut)
          ELSE IF delete /\ be.server = "up" /\ vm.InstanceID # ""
            THEN Enter("pullOperationStatus", "DONE")
            ELSE ReturnNoPoll(E("ErrInstances.Delete"), NoOut)
  /\ UNCHANGED <<adapter, proc, vm, be>>

\* google.VM.Provision (with provision of the service) up to the poll of
\* the insert operation: the service, the lookups of the zone, the image,
\* the machine type and the network, Instances.Insert.
gceProvisionCalls ==
  <<"getService", "Zones.Get", "Images.Get", "MachineTypes.Get", "Networks.Get",
    "Instances.Insert">>

GCE_Provision ==
  /\ adapter = "google"
  /\ Begin("Provision")
  /\ \E svc \in BOOLEAN, zone \in BOOLEAN, image \in BOOLEAN, machineType \in BOOLEAN,
        network \in BOOLEAN, insert \in BOOLEAN :
       LET answers == <<svc, zone, image, machineType, network, insert>>
           made == IF \A j \in 1..6 : answers[j] THEN 6
                   ELSE CHOOSE j \in 1..6 : ~answers[j] /\ \A k \in 1..(j - 1) : answers[k]
           inserted == made = 6 /\ insert /\ be.server = "none" /\ vm.InstanceID # ""
       IN
       /\ Asked(answers)
       /\ calls' = SubSeq(gceProvisionCalls, 1, made)
       /\ be' = IF inserted THEN [be EXCEPT !.server = "creating"] ELSE be
       /\ IF inserted THEN Enter("pullOperationStatus", "DONE")
          ELSE IF \A j \in 1..6 : answers[j]
            THEN ReturnNoPoll(E("ErrInstances.Insert"), NoOut)
          ELSE ReturnNoPoll(E("Err" \o gceProvisionCalls[made]), NoOut)
  /\ UNCHANGED <<adapter, proc, vm>>

\* The end of provision of the service: getInstance, whose error it
\* returns; the status of the instance is not looked at.
GCE_Provision_getInstance ==
  /\ pc = "Provision_getInstance"
  /\ calls' = calls \o <<"Instances.Get">>
  /\ \E a \in GCEInstances(vm, be) : ReturnState(a.err, NoOut, a.res)
  /\ UNCHANGED <<adapter, proc, vm, be, op>>

\* google.VM.GetState: the status of the instance as the backend words it.
gceGetState(svc, a) ==
  IF ~svc THEN [state |-> "", err |-> E("ErrService")]
  ELSE IF a.err # Nil THEN [state |-> "", err |-> a.err]
  ELSE [state |-> a.res, err |-> Nil]

GCE_GetState ==
  /\ adapter = "google"
  /\ Begin("GetState")
  /\ \E svc \in BOOLEAN, a \in GCEInstances(vm, be) :
       LET g == gceGetState(svc, a) IN
       /\ calls' = IF svc THEN <<"getService", "Instances.Get">>
                          ELSE <<"getService">>
       /\ ReturnState(g.err, g.state, a.res)
  /\ UNCHANGED <<adapter, proc, vm, be>>

\* google.VM.GetIPs (with getIPs of the service).
\* GCEService.getIPs on the instance the backend returned: NatIP is the
\* public address, NetworkIP the private one, and both must be there.
getIPs(addr) ==
  IF addr.public = "" THEN [ips |-> "nil", err |-> E("error to retrieve public IP")]
  ELSE IF addr.private = ""
    THEN [ips |-> "nil", err |-> E("error to retrieve private IP")]
  ELSE [ips |-> [k \in {PublicIP, PrivateIP} |->
                   IF k = PublicIP THEN ParseIP(addr.public)
                                   ELSE ParseIP(addr.private)],
        err |-> Nil]

GCE_GetIPs ==
  /\ adapter = "google"
  /\ Begin("GetIPs")
  /\ \E svc \in BOOLEAN, a \in GCEInstances(vm, be), addr \in AddressAnswers :
       LET g == getIPs(addr) IN
       /\ (~svc \/ a.err # Nil) => addr = [public |-> "", private |-> "", v6 |-> ""]
       \* the status of the instance is not read
       /\ (svc /\ a.err = Nil) => a.res = "RUNNING"
       /\ calls' = IF svc THEN <<"getService", "Instances.Get">>
                          ELSE <<"getService">>
       /\ IF ~svc THEN ReturnState(E("ErrService"), "nil", AddrText(addr))
          ELSE IF a.err # Nil THEN ReturnState(a.err, "nil", AddrText(addr))
          ELSE ReturnState(g.err, g.ips, AddrText(addr))
  /\ UNCHANGED <<adapter, proc, vm, be>>

\* google.VM.Suspend
GCE_Suspend ==
  /\ adapter = "google"
  /\ Begin("Suspend")
  /\ calls' = <<>>
  /\ ReturnNoPoll(E("Suspend action not supported by GCE"), NoOut)
  /\ UNCHANGED <<adapter, proc, vm, be>>

\* google.VM.Resume
GCE_Resume ==
  /\ adapter = "google"
  /\ Begin("Resume")
  /\ calls' = <<>>
  /\ ReturnNoPoll(E("Resume action not supported by GCE"), NoOut)
  /\ UNCHANGED <<adapter, proc, vm, be>>

GCENext ==
  \/ GCE_pullOperationStatus
  \/ GCE_Provision
  \/ GCE_Provision_getInstance
  \/ GCE_Halt
  \/ GCE_Start
  \/ GCE_Destroy
  \/ GCE_GetState
  \/ GCE_GetIPs
  \/ GCE_Suspend
  \/ GCE_Resume

(***************************************************************************)
(* Exoscale.  The handlers issue one request and record the job's id; the  *)
(* handle's ID is its InstanceID.                                          *)
(***************************************************************************)
EXOStates == {"Running", "Stopped", "Starting", "Stopping", "Destroyed"}

\* Halt, Start and Destroy of exoscale.VM: the ID check and one request.
EXO_Request(h, command) ==
  /\ adapter = "exoscale"
  /\ Begin(h)
  /\ \E ok \in BOOLEAN :
       IF vm.InstanceID = ""
         THEN /\ calls' = <<>>
              /\ vm' = vm
              /\ ReturnNoPoll(E("ErrNeedID"), NoOut)
         ELSE /\ calls' = <<command>>
              /\ vm' = IF ok /\ be.server = "up"
                         THEN [vm EXCEPT !.JobID = "job1"] ELSE vm
              /\ ReturnNoPoll(IF ok /\ be.server = "up"
                                THEN Nil ELSE Wrap("Err" \o command, vm.InstanceID),
                              NoOut)
  /\ UNCHANGED <<adapter, proc, be>>

EXO_Halt == EXO_Request("Halt", "stopVirtualMachine")

EXO_Start == EXO_Request("Start", "startVirtualMachine")

EXO_Destroy == EXO_Request("Destroy", "destroyVirtualMachine")

\* What listVirtualMachines answers to updateInfo: the state of the one
\* machine listed, or an error (the request failed or the count is not 1).
EXOListings(b) ==
  IF b.server = "none"
    THEN {Answer("", E("ErrListing"))}
    ELSE {Answer(st, Nil) : st \in EXOStates} \cup {Answer("", E("ErrListing"))}

\* updateInfo: the listing of the machine, whose Displayname becomes the Name
\* of the handle (the other fields it refreshes are the state and the
\* addresses, which GetState and GetIPs return, and the template, offering
\* and keypair, which no handler reads afterwards).
updateInfo(v, a, d) ==
  IF v.InstanceID = "" THEN [err |-> E("ErrNeedID"), calls |-> <<>>, vm |-> v]
  ELSE [err |-> a.err, calls |-> <<"listVirtualMachines">>,
        vm |-> IF a.err = Nil THEN [v EXCEPT !.Name = d] ELSE v]

\* exoscale.VM.GetName: the name after updateInfo, or "" when it fails.
EXO_GetName ==
  /\ adapter = "exoscale"
  /\ Begin("GetName")
  /\ \E a \in EXOListings(be), d \in DisplayNames :
       LET u == updateInfo(vm, a, d) IN
       /\ (u.err = Nil) => a.res = "Running"
       /\ calls' = u.calls
       /\ vm' = u.vm
       /\ ReturnNoPoll(Nil, IF u.err = Nil THEN u.vm.Name ELSE "")
  /\ UNCHANGED <<adapter, proc, be>>

\* exoscale.VM.GetState: the state as the backend words it.
EXO_GetState ==
  /\ adapter = "exoscale"
  /\ Begin("GetState")
  /\ \E a \in EXOListings(be), d \in DisplayNames :
       LET u == updateInfo(vm, a, d) IN
       /\ calls' = u.calls
       /\ vm' = u.vm
       /\ IF vm.InstanceID = "" THEN ReturnNoPoll(E("ErrNeedID"), "")
          ELSE ReturnState(u.err, IF u.err = Nil THEN a.res ELSE "", a.res)
  /\ UNCHANGED <<adapter, proc, be>>

\* exoscale.VM.GetIPs
\* What an Exoscale listing says of the interface of a machine: Ipaddress,
\* which is the public address of the machine (it has no private one), and
\* Ip6address.
EXOAddressAnswers ==
  [public : {"", PublicAddr}, private : {""}, v6 : {"", V6Addr}]

\* The list updateInfo stores in vm.ips: the addresses of the interface that
\* are not empty, appended in the order Ipaddress, Ip6address.
exoIPs(addr) ==
  (IF addr.public # "" THEN <<ParseIP(addr.public)>> ELSE <<>>)
    \o (IF addr.v6 # "" THEN <<ParseIP(addr.v6)>> ELSE <<>>)

EXO_GetIPs ==
  /\ adapter = "exoscale"
  /\ Begin("GetIPs")
  /\ \E a \in EXOListings(be), addr \in EXOAddressAnswers, d \in DisplayNames :
       LET u == updateInfo(vm, a, d) IN
       /\ u.err # Nil => addr = [public |-> "", private |-> "", v6 |-> ""]
       \* the state of the listing is not what GetIPs returns
       /\ (u.err = Nil) => a.res = "Running"
       /\ calls' = u.calls
       /\ vm' = u.vm
       /\ ReturnState(u.err, IF u.err = Nil THEN exoIPs(addr) ELSE "nil", AddrText(addr))
  /\ UNCHANGED <<adapter, proc, be>>

\* exoscale.VM.GetSSH: a client for the first address, returned once
\* WaitForSSH has reached the machine within SSHTimeout.
EXO_GetSSH ==
  /\ adapter = "exoscale"
  /\ Begin("GetSSH")
  /\ \E a \in EXOListings(be), addr \in EXOAddressAnswers, d \in DisplayNames,
        reached \in BOOLEAN :
       LET i0 == updateInfo(vm, a, d)
           l == IF i0.err = Nil THEN exoIPs(addr) ELSE <<>>
           u == GetVMIPs(l, Len(l), i0.err) IN
       /\ i0.err # Nil => addr = [public |-> "", private |-> "", v6 |-> ""]
       /\ (i0.err = Nil) => a.res = "Running"
       /\ u.err # Nil => reached
       /\ calls' = i0.calls
       /\ vm' = i0.vm
       /\ ReturnState(IF u.err # Nil THEN u.err
                      ELSE IF reached THEN Nil ELSE E("ErrSSHTimeout"),
                      IF u.err = Nil /\ reached THEN SSHClient(u.ips[1]) ELSE NoOut,
                      AddrText(addr))
  /\ UNCHANGED <<adapter, proc, be>>

\* What a listing of Provision can answer: how many entries of the catalog
\* bear the name, or an error of the request.
EXOAnswers(matches) == {matches, "error"}

\* fillTemplateID: the first template of the listing that fits is taken.
fillTemplateID(a) ==
  IF a = "error" THEN Wrap("ErrGettingTemplateID", "template")
  ELSE IF a = "zero" THEN Wrap("ErrTemplateNotFound", "template")
  ELSE Nil

\* fillServiceOfferingID: the listing must count one offering.
fillServiceOfferingID(a) ==
  IF a = "error" THEN Wrap("ErrGettingServiceOfferingID", "offering")
  ELSE IF a # "one" THEN Wrap("ErrExpectedOneServiceOffering", "offering")
  ELSE Nil

\* fillSecurityGroupsID
fillSecurityGroupsID(a) ==
  IF a = "error" THEN E("ErrGettingSecurityGroups")
  ELSE IF a = "zero" THEN Wrap("ErrSecurityGroupNotFound", "group")
  ELSE Nil

\* fillZoneID: the first zone of the listing that bears the name is taken; the
\* error of the request is worded with the name of the service offering.
fillZoneID(a) ==
  IF a = "error" THEN Wrap("ErrGettingZonesID", "offering")
  ELSE IF a = "zero" THEN Wrap("ErrZoneNotFound", "zone")
  ELSE Nil

\* The handle after a lookup of the name n that returned e.
exoResolved(v, n, e) ==
  IF n \notin v.Resolved /\ e = Nil
    THEN [v EXCEPT !.Resolved = v.Resolved \cup {n}] ELSE v

\* exoscale.VM.Provision: the lookups of the names that have no identifier
\* yet, then the create request, whose job it records.  The error of
\* fillSecurityGroupsID is dropped.
exoProvision(v, b, t, o, g, z, create) ==
  LET Need(n) == n \notin v.Resolved
      eT == IF Need("template") THEN fillTemplateID(t) ELSE Nil
      eO == IF Need("offering") THEN fillServiceOfferingID(o) ELSE Nil
      eG == IF Need("group") THEN fillSecurityGroupsID(g) ELSE Nil
      eZ == IF Need("zone") THEN fillZoneID(z) ELSE Nil
      v1 == exoResolved(v, "template", eT)
      v2 == exoResolved(v1, "offering", eO)
      v3 == exoResolved(v2, "group", eG)
      v4 == exoResolved(v3, "zone", eZ)
      c1 == IF Need("template") THEN <<"listTemplates">> ELSE <<>>
      c2 == IF Need("offering") THEN c1 \o <<"listServiceOfferings">> ELSE c1
      c3 == IF Need("group") THEN c2 \o <<"listSecurityGroups">> ELSE c2
      c4 == IF Need("zone") THEN c3 \o <<"listZones">> ELSE c3
  IN
  IF eT # Nil THEN Outcome(eT, c1, v, b, "return")
  ELSE IF eO # Nil THEN Outcome(eO, c2, v1, b, "return")
  ELSE IF eZ # Nil THEN Outcome(eZ, c4, v3, b, "return")
  ELSE IF ~create
    THEN Outcome(E("ErrdeployVirtualMachine"), c4 \o <<"deployVirtualMachine">>,
                 v4, b, "return")
  ELSE Outcome(Nil, c4 \o <<"deployVirtualMachine">>,
               [v4 EXCEPT !.JobID = "create1"], [b EXCEPT !.server = "creating"],
               "return")

EXO_Provision ==
  /\ adapter = "exoscale"
  /\ Begin("Provision")
  /\ vm.InstanceID = ""
  /\ be.server = "none"
  /\ \E t \in EXOAnswers(be.templates), o \in EXOAnswers(be.offerings),
        g \in EXOAnswers(be.groups), z \in EXOAnswers(be.zones), create \in BOOLEAN :
       LET r == exoProvision(vm, be, t, o, g, z, create) IN
       /\ Asked(<<t # "error" \/ "template" \in vm.Resolved,
                  o # "error" \/ "offering" \in vm.Resolved,
                  z # "error" \/ "zone" \in vm.Resolved, create>>)
       /\ vm' = r.vm
       /\ be' = r.be
       /\ calls' = r.calls
       /\ ReturnNoPoll(r.err, NoOut)
  /\ UNCHANGED <<adapter, proc>>

\* What the wait for the job of the handle can come to: the job's result,
\* an error of the query, or the caller's timeout.
JobAnswers == {"pending", "done", "garbled", "error", "timeout"}

\* A wait that takes the end of the time allowed for the completion of the
\* job.
WaitVMCreationNoTimeoutError(v, b, a) ==
  IF a = "error"
    THEN Outcome(E("ErrqueryAsyncJobResult"), <<>>, v, b, "return")
  ELSE IF a = "timeout"
    THEN Outcome(Nil, <<>>, [v EXCEPT !.InstanceID = "vm1"], b, "return")
  ELSE IF a = "garbled"
    THEN Outcome(E("ErrJobresult"), <<>>, v,
                 IF b.server = "creating" THEN [b EXCEPT !.server = "up"] ELSE b,
                 "return")
  ELSE IF a = "done"
    THEN Outcome(Nil, <<>>, [v EXCEPT !.InstanceID = "vm1"],
                 IF b.server = "creating" THEN [b EXCEPT !.server = "up"] ELSE b,
                 "return")
  ELSE Outcome(Nil, <<>>, v, b, "again")

\* WaitVMCreation, one probe of the job and what the select of the caller
\* receives from it: the error of the probe, the result of the completed job
\* (Jobstatus 1), from which the identifier of the machine is taken, or the
\* end of timeoutSeconds; after any other status ("pending": the job runs
\* or has failed, Jobstatus is not 1) the job is probed again.
WaitVMCreation(v, b, a) ==
  IF a = "error"
    THEN Outcome(E("ErrqueryAsyncJobResult"), <<>>, v, b, "return")
  ELSE IF a = "timeout"
    THEN Outcome(E("ErrCreateVMJobNotCompleted"), <<>>, v, b, "return")
  ELSE IF a = "garbled"
    THEN Outcome(E("ErrJobresult"), <<>>, v,
                 IF b.server = "creating" THEN [b EXCEPT !.server = "up"] ELSE b,
                 "return")
  ELSE IF a = "done"
    THEN Outcome(Nil, <<>>, [v EXCEPT !.InstanceID = "vm1"],
                 IF b.server = "creating" THEN [b EXCEPT !.server = "up"] ELSE b,
                 "return")
  ELSE Outcome(Nil, <<>>, v, b, "again")

\* WaitVMCreation up to its select: the JobID check.
EXO_WaitVMCreation ==
  /\ adapter = "exoscale"
  /\ Begin("WaitVMCreation")
  /\ calls' = <<>>
  /\ IF vm.JobID = "" THEN ReturnNoPoll(E("ErrNoJobID"), NoOut)
                      ELSE Enter("WaitVMCreation", "done")
  /\ UNCHANGED <<adapter, proc, vm, be>>

\* One probe of the job, or the end of the time allowed.
EXO_WaitVMCreation_poll ==
  /\ pc = "WaitVMCreation"
  /\ \E a \in JobAnswers :
       LET r == WaitVMCreation(vm, be, a) IN
       /\ vm' = r.vm
       /\ be' = r.be
       /\ IF r.next = "again" THEN PollAgain(a)
                              ELSE PollDone(a, r.err, r.err, "idle")
  /\ UNCHANGED <<adapter, proc, op, calls>>

\* exoscale.VM.Suspend
EXO_Suspend ==
  /\ adapter = "exoscale"
  /\ Begin("Suspend")
  /\ calls' = <<>>
  /\ ReturnNoPoll(ErrSuspendNotSupported, NoOut)
  /\ UNCHANGED <<adapter, proc, vm, be>>

\* exoscale.VM.Resume
EXO_Resume ==
  /\ adapter = "exoscale"
  /\ Begin("Resume")
  /\ calls' = <<>>
  /\ ReturnNoPoll(ErrResumeNotSupported, NoOut)
  /\ UNCHANGED <<adapter, proc, vm, be>>

EXONext ==
  \/ EXO_Provision
  \/ EXO_WaitVMCreation
  \/ EXO_WaitVMCreation_poll
  \/ EXO_Halt
  \/ EXO_Start
  \/ EXO_Destroy
  \/ EXO_GetState
  \/ EXO_GetName
  \/ EXO_GetSSH
  \/ EXO_GetIPs
  \/ EXO_Suspend
  \/ EXO_Resume

(***************************************************************************)
(* Azure classic.  The handle's Name is its InstanceID; no handler checks  *)
(* it.  WaitForOperation is the SDK's.                                     *)
(***************************************************************************)
\* What GetDeployment answers to GetState.
AzureDeployments(b) ==
  IF b.server = "none"
    THEN {Answer("", ErrVMInfoFailed)}
    ELSE {Answer(st, Nil) : st \in AzureStatuses} \cup {Answer("", ErrVMInfoFailed)}

\* azure.VM.GetState
azureGetState(client, a) ==
  IF ~client THEN [state |-> "", err |-> E("errGetClient")]
  ELSE IF a.err # Nil THEN [state |-> "", err |-> ErrVMInfoFailed]
  ELSE [state |-> azureTranslateState(a.res), err |-> Nil]

AZ_GetState ==
  /\ adapter = "azure"
  /\ Begin("GetState")
  /\ \E client \in BOOLEAN, a \in AzureDeployments(be) :
       LET g == azureGetState(client, a) IN
       \* without a client the deployment is not asked for
       /\ ~client => a = Answer("", ErrVMInfoFailed)
       /\ calls' = IF client THEN <<"getVMClient", "GetDeployment">>
                             ELSE <<"getVMClient">>
       /\ ReturnState(g.err, g.state, a.res)
  /\ UNCHANGED <<adapter, proc, vm, be>>

\* waitForReady: the body of one iteration.
waitForReady(n, state, err, targetState) ==
  IF err # Nil THEN Stop(err)
  ELSE IF state = targetState THEN Stop(Nil)
  ELSE IF n + 1 < WaitForReadyTimeout THEN Continue
  ELSE Stop(Wrap("errMsgTimeout", "Running"))

\* A caller waits for the machine to run.
AZ_waitForReady_call ==
  /\ adapter = "azure"
  /\ Begin("waitForReady")
  /\ calls' = <<>>
  /\ Enter("waitForReady", VMRunning)
  /\ UNCHANGED <<adapter, proc, vm, be>>

AZ_waitForReady ==
  /\ pc = "waitForReady"
  /\ \E client \in BOOLEAN, a \in AzureDeployments(be) :
       LET g == azureGetState(client, a)
           s == waitForReady(i, g.state, g.err, target)
       IN
       /\ ~client => a = Answer("", ErrVMInfoFailed)
       \* the wait reads the translated state: one status of each is drawn
       /\ a.res \in {"", "Starting", "Running", "Suspended", "Deleting",
                     "SuspendedTransitioning"}
       /\ IF s.done THEN PollDone(IF client THEN a.res ELSE "", s.err, s.err, "idle")
                    ELSE PollContinue(IF client THEN a.res ELSE "")
  /\ UNCHANGED <<adapter, proc, vm, be, op, calls>>

\* azure.VM.Provision: the hosted service of the handle is looked up in the
\* list of the account and created only if it is not there ("shared" is a
\* service that was there before, "created" one that this Provision made);
\* then the role is set up (subnet, client, configuration), the deployment
\* is created and waited for, and the machine is waited for over SSH.
azureProvision(v, b, list, create, setup, deploy, waited, ssh) ==
  LET c1 == <<"ListHostedServices">>
      c2 == IF b.service = "none" THEN c1 \o <<"CreateHostedService">> ELSE c1
      b2 == IF b.service = "none" THEN [b EXCEPT !.service = "created"] ELSE b
      c3 == c2 \o <<"getFirstSubnet", "getVMClient">>
      c4 == c3 \o <<"CreateDeployment">>
      b4 == [b2 EXCEPT !.server = "up"]
  IN
  IF ~list THEN Outcome(E("errGetListService"), c1, v, b, "return")
  ELSE IF b.service = "none" /\ ~create
    THEN Outcome(E("ErrCreateHostedService"), c2, v, b, "return")
  ELSE IF ~setup THEN Outcome(E("errProvisionVM"), c3, v, b2, "return")
  ELSE IF ~(deploy /\ b.server = "none")
    THEN Outcome(E("errProvisionVM"), c4, v, b2, "return")
  ELSE IF ~waited
    THEN Outcome(E("errProvisionVM"), c4 \o <<"WaitForOperation">>, v, b4, "return")
  ELSE IF ~ssh
    THEN Outcome(E("ErrSSH"), c4 \o <<"WaitForOperation", "WaitForSSH">>, v, b4,
                 "return")
  ELSE Outcome(Nil, c4 \o <<"WaitForOperation", "WaitForSSH">>, v, b4, "return")

AZ_Provision ==
  /\ adapter = "azure"
  /\ Begin("Provision")
  /\ \E list \in BOOLEAN, create \in BOOLEAN, setup \in BOOLEAN, deploy \in BOOLEAN,
        waited \in BOOLEAN, ssh \in BOOLEAN :
       LET o == azureProvision(vm, be, list, create, setup, deploy, waited, ssh) IN
       /\ Asked(<<list, create, setup, deploy, waited, ssh>>)
       /\ vm' = o.vm
       /\ be' = o.be
       /\ calls' = o.calls
       /\ ReturnNoPoll(o.err, NoOut)
  /\ UNCHANGED <<adapter, proc>>

\* Halt, Start and Destroy of azure.VM: the client, the request, the wait
\* for the operation (and, for Destroy, deleteHostedService).
AZ_Request(h, call) ==
  /\ adapter = "azure"
  /\ Begin(h)
  /\ \E client \in BOOLEAN, ok \in BOOLEAN, waited \in BOOLEAN,
        cleaned \in BOOLEAN :
       LET done == ok /\ be.server = "up" /\ vm.InstanceID # "" IN
       /\ Asked(<<client, ok, waited, cleaned>>)
       /\ h # "Destroy" => cleaned
       /\ calls' = IF ~client THEN <<"getVMClient">>
                   ELSE IF ~done THEN <<"getVMClient", call>>
                   ELSE IF h # "Destroy" \/ ~waited
                     THEN <<"getVMClient", call, "WaitForOperation">>
                   ELSE <<"getVMClient", call, "WaitForOperation",
                          "deleteHostedService">>
       /\ be' = IF h = "Destroy" /\ client /\ done /\ waited
                  THEN [be EXCEPT !.server = "none",
                                  !.service = IF cleaned THEN "none" ELSE @]
                  ELSE be
       /\ ReturnNoPoll(IF ~client THEN E("errGetClient")
                       ELSE IF ~done THEN E("Err" \o call)
                       ELSE IF ~waited THEN E("ErrWaitForOperation")
                       ELSE IF ~cleaned THEN E("ErrDeleteHostedService")
                       ELSE Nil, NoOut)
  /\ UNCHANGED <<adapter, proc, vm>>

AZ_Halt == AZ_Request("Halt", "ShutdownRole")

AZ_Start == AZ_Request("Start", "StartRole")

AZ_Destroy == AZ_Request("Destroy", "DeleteDeployment")

\* azure.VM.Suspend
AZ_Suspend ==
  /\ adapter = "azure"
  /\ Begin("Suspend")
  /\ calls' = <<>>
  /\ ReturnNoPoll(ErrSuspendNotSupported, NoOut)
  /\ UNCHANGED <<adapter, proc, vm, be>>

\* azure.VM.Resume
AZ_Resume ==
  /\ adapter = "azure"
  /\ Begin("Resume")
  /\ calls' = <<>>
  /\ ReturnNoPoll(ErrResumeNotSupported, NoOut)
  /\ UNCHANGED <<adapter, proc, vm, be>>

AZNext ==
  \/ AZ_Provision
  \/ AZ_GetState
  \/ AZ_waitForReady_call
  \/ AZ_waitForReady
  \/ AZ_Halt
  \/ AZ_Start
  \/ AZ_Destroy
  \/ AZ_Suspend
  \/ AZ_Resume

(***************************************************************************)
(* vmrun (VMware Fusion and Workstation).  The machine is a clone of the   *)
(* source directory at the destination path; the backend is the file       *)
(* system and the vmrun utility.  The handle has no instance identifier.   *)
(***************************************************************************)
\* vmrun.VM.Provision: the paths, the destination directory, the clone, its
\* configuration, and waitUntilReady (the start and the wait for an IP).
vmrunProvision(v, b, mkdir, copy, configure, start, ip) ==
  LET cs == <<"Stat", "Mkdir", "copyDir", "configure", "start", "getGuestIPAddress">>
      cloned == [b EXCEPT !.server = "halted"]
      up == [b EXCEPT !.server = "up"]
  IN
  IF v.Src = "" THEN Outcome(ErrSourceNotSpecified, <<>>, v, b, "return")
  ELSE IF v.Dst = "" THEN Outcome(ErrDestNotSpecified, <<>>, v, b, "return")
  ELSE IF b.server # "none" THEN Outcome(ErrCreatingVM, SubSeq(cs, 1, 1), v, b, "return")
  ELSE IF ~mkdir THEN Outcome(E("ErrMkdir"), SubSeq(cs, 1, 2), v, b, "return")
  ELSE IF ~copy THEN Outcome(E("ErrcopyDir"), SubSeq(cs, 1, 3), v, cloned, "return")
  ELSE IF ~configure
    THEN Outcome(E("Errconfigure"), SubSeq(cs, 1, 4), v, cloned, "return")
  ELSE IF ~start THEN Outcome(E("Errstart"), SubSeq(cs, 1, 5), v, cloned, "return")
  ELSE IF ~ip THEN Outcome(ErrVMBootTimeout, cs, v, up, "return")
  ELSE Outcome(Nil, cs, v, up, "return")

VMR_Provision ==
  /\ adapter = "vmrun"
  /\ Begin("Provision")
  /\ \E mkdir \in BOOLEAN, copy \in BOOLEAN, configure \in BOOLEAN, start \in BOOLEAN,
        ip \in BOOLEAN :
       LET r == vmrunProvision(vm, be, mkdir, copy, configure, start, ip) IN
       /\ Asked(<<mkdir, copy, configure, start, ip>>)
       /\ vm' = r.vm
       /\ be' = r.be
       /\ calls' = r.calls
       /\ ReturnNoPoll(r.err, NoOut)
  /\ UNCHANGED <<adapter, proc>>

\* vmrun.VM.Destroy: the hard stop, then the removal of the destination
\* directory.  vmrun stops a machine only if it runs.
vmrunDestroy(v, b, stop, remove) ==
  IF ~(stop /\ b.server \in {"up", "suspended"})
    THEN Outcome(E("Errstop"), <<"stop">>, v, b, "return")
  ELSE IF v.Dst = ""
    THEN Outcome(Nil, <<"stop">>, v, [b EXCEPT !.server = "halted"], "return")
  ELSE IF ~remove
    THEN Outcome(ErrDeletingVM, <<"stop", "RemoveAll">>, v,
                 [b EXCEPT !.server = "halted"], "return")
  ELSE Outcome(Nil, <<"stop", "RemoveAll">>, v, [b EXCEPT !.server = "none"], "return")

VMR_Destroy ==
  /\ adapter = "vmrun"
  /\ Begin("Destroy")
  /\ \E stop \in BOOLEAN, remove \in BOOLEAN :
       LET r == vmrunDestroy(vm, be, stop, remove) IN
       /\ Asked(<<stop, remove>>)
       /\ vm' = r.vm
       /\ be' = r.be
       /\ calls' = r.calls
       /\ ReturnNoPoll(r.err, NoOut)
  /\ UNCHANGED <<adapter, proc>>

\* Halt, Suspend, Start and Resume of vmrun.VM: one run of the utility, which
\* takes the machine from one of the power states from to the state to.
VMR_Run(h, command, from, to) ==
  /\ adapter = "vmrun"
  /\ Begin(h)
  /\ calls' = <<command>>
  /\ \E ok \in BOOLEAN :
       IF ok /\ be.server \in from
         THEN be' = [be EXCEPT !.server = to] /\ ReturnNoPoll(Nil, NoOut)
         ELSE be' = be /\ ReturnNoPoll(E("Err" \o command), NoOut)
  /\ UNCHANGED <<adapter, proc, vm>>

VMR_Halt == VMR_Run("Halt", "stop", {"up", "suspended"}, "halted")

VMR_Suspend == VMR_Run("Suspend", "suspend", {"up"}, "suspended")

VMR_Start == VMR_Run("Start", "start", {"up", "halted", "suspended"}, "up")

\* vmrun.VM.Resume is Start.
VMR_Resume == VMR_Run("Resume", "start", {"up", "halted", "suspended"}, "up")

\* vmrun.VM.GetIPs: waitUntilReady (Start, then the wait for an address),
\* whose error is dropped, and the list it left in vm.ips.
VMR_GetIPs ==
  /\ adapter = "vmrun"
  /\ Begin("GetIPs")
  /\ \E start \in BOOLEAN, ip \in BOOLEAN :
       LET started == start /\ be.server \in {"up", "halted", "suspended"} IN
       /\ Asked(<<started, ip>>)
       /\ calls' = IF started THEN <<"start", "getGuestIPAddress">> ELSE <<"start">>
       /\ be' = IF started THEN [be EXCEPT !.server = "up"] ELSE be
       /\ ReturnNoPoll(Nil, IF started /\ ip THEN <<PrivateAddr>> ELSE <<>>)
  /\ UNCHANGED <<adapter, proc, vm>>

\* What vmrun list prints about the machine of a handle: its destination
\* path as the handle has it, the absolute path behind a symbolic link, or
\* neither; the list names the machines that run.
ListAnswers(b) ==
  IF b.server = "up" THEN {"Dst", "absp"} ELSE {"neither"}

\* strings.Contains(stdout, path): every text contains the empty one.
ListContains(stdout, path, dst) ==
  IF path = "Dst" THEN (dst = "" \/ stdout = "Dst") ELSE stdout = "absp"

\* A GetState that reports a machine that is not listed as halted.
vmrunGetStateHalted(v, run, stdout, resolved) ==
  IF run = "error" THEN [state |-> "", err |-> E("Errlist")]
  ELSE IF run = "stderr"
    THEN [state |-> "", err |-> E("Failed to get state using the vmrun utility")]
  ELSE IF ListContains(stdout, "Dst", v.Dst) THEN [state |-> VMRunning, err |-> Nil]
  ELSE IF ~resolved THEN [state |-> "", err |-> E("ErrEvalSymlinks")]
  ELSE IF ListContains(stdout, "absp", v.Dst) THEN [state |-> VMRunning, err |-> Nil]
  ELSE [state |-> VMHalted, err |-> Nil]

\* vmrun.VM.GetState: run says whether the utility ran ("ok"), failed
\* ("error") or wrote to its standard error ("stderr"); resolved says
\* whether filepath.EvalSymlinks and filepath.Abs gave a path.
vmrunGetState(v, run, stdout, resolved) ==
  IF run = "error" THEN [state |-> "", err |-> E("Errlist")]
  ELSE IF run = "stderr"
    THEN [state |-> "", err |-> E("Failed to get state using the vmrun utility")]
  ELSE IF ListContains(stdout, "Dst", v.Dst) THEN [state |-> VMRunning, err |-> Nil]
  ELSE IF ~resolved THEN [state |-> "", err |-> E("ErrEvalSymlinks")]
  ELSE IF ListContains(stdout, "absp", v.Dst) THEN [state |-> VMRunning, err |-> Nil]
  ELSE [state |-> VMSuspended, err |-> Nil]

\* A path resolves when the directory is there.
VMR_GetState ==
  /\ adapter = "vmrun"
  /\ Begin("GetState")
  /\ \E run \in {"ok", "error", "stderr"}, stdout \in ListAnswers(be) :
       LET resolved == be.server # "none"
           g == vmrunGetState(vm, run, stdout, resolved)
       IN
       /\ run # "ok" => stdout = "neither"
       /\ calls' = <<"list">>
       /\ ReturnState(g.err, g.state, IF run = "ok" THEN stdout ELSE run)
  /\ UNCHANGED <<adapter, proc, vm, be>>

VMRNext ==
  \/ VMR_Provision
  \/ VMR_GetIPs
  \/ VMR_GetState
  \/ VMR_Destroy
  \/ VMR_Halt
  \/ VMR_Suspend
  \/ VMR_Start
  \/ VMR_Resume

(***************************************************************************)
(* The cache of the Azure client (azure/util.go): getClient called by      *)
(* concurrent goroutines.                                                  *)
(***************************************************************************)
\* A goroutine calls getClient.
GC_Call(t) ==
  /\ adapter = "getClient"
  /\ proc.at[t] \in {"idle", "done"}
  /\ proc.ncalls < MaxGetClientCalls
  /\ proc' = [proc EXCEPT !.at[t] = "Lock", !.ncalls = @ + 1,
                          !.res[t] = [client |-> 0, from |-> "", err |-> E("none")]]
  /\ UNCHANGED <<adapter, handle>>

\* A mutex that lets a goroutine in whoever holds it.
GC_LockNoExclusion(t) ==
  /\ adapter = "getClient"
  /\ proc.at[t] = "Lock"
  /\ proc' = [proc EXCEPT !.mu = t, !.at[t] = "check"]
  /\ UNCHANGED <<adapter, handle>>

\* mu.Lock(): the goroutine goes on once the mutex is free, and holds it.
GC_Lock(t) ==
  /\ adapter = "getClient"
  /\ proc.at[t] = "Lock"
  /\ proc.mu = 0
  /\ proc' = [proc EXCEPT !.mu = t, !.at[t] = "check"]
  /\ UNCHANGED <<adapter, handle>>

\* if client != nil { return client, nil }, with the deferred mu.Unlock().
GC_Check(t) ==
  /\ adapter = "getClient"
  /\ proc.at[t] = "check"
  /\ proc' = IF proc.client # 0
               THEN [proc EXCEPT !.res[t] = [client |-> proc.client,
                                             from |-> proc.from, err |-> Nil],
                                 !.mu = 0, !.at[t] = "done"]
               ELSE [proc EXCEPT !.at[t] = "construct"]
  /\ UNCHANGED <<adapter, handle>>

\* client, err = management.ClientFromPublishSettingsFile(...) and the
\* return, with the deferred mu.Unlock().  A construction that fails leaves
\* nil in client.
GC_Construct(t) ==
  /\ adapter = "getClient"
  /\ proc.at[t] = "construct"
  /\ \E ok \in BOOLEAN :
       proc' = IF ok
                 THEN [proc EXCEPT !.auths = @ + 1, !.built = @ + 1,
                                   !.client = proc.auths + 1,
                                   !.from = PublishSettings(t),
                                   !.res[t] = [client |-> proc.auths + 1,
                                               from |-> PublishSettings(t),
                                               err |-> Nil],
                                   !.mu = 0, !.at[t] = "done"]
                 ELSE [proc EXCEPT !.auths = @ + 1, !.client = 0, !.from = "",
                                   !.res[t] = [client |-> 0, from |-> "",
                                               err |-> E("ErrPublishSettings")],
                                   !.mu = 0, !.at[t] = "done"]
  /\ UNCHANGED <<adapter, handle>>

GCNext ==
  \/ \E t \in Goroutines : GC_Call(t)
  \/ \E t \in Goroutines : GC_Lock(t)
  \/ \E t \in Goroutines : GC_Check(t)
  \/ \E t \in Goroutines : GC_Construct(t)

(***************************************************************************)
(* vmrunRunner.Run (vmrun): the caller that waits for the command, and the  *)
(* callback of the timer, which runs in a goroutine of its own.            *)
(***************************************************************************)
\* The command finishes by itself, with or without an error.
RUN_Exit ==
  /\ adapter = "Run"
  /\ proc.process = "running"
  /\ \E status \in {Nil, E("exit status 1")} :
       proc' = [proc EXCEPT !.process = "exited", !.e = status]
  /\ UNCHANGED <<adapter, handle>>

\* vmrunTimeout has passed: the callback starts with cmd.Process.Kill().
RUN_TimerKill ==
  /\ adapter = "Run"
  /\ proc.timer = "armed"
  /\ proc' = IF proc.process = "running"
               THEN [proc EXCEPT !.timer = "killing", !.process = "killed",
                                 !.e = E("signal: killed")]
               ELSE [proc EXCEPT !.timer = "killing"]
  /\ UNCHANGED <<adapter, handle>>

\* The callback goes on: err = ErrVmrunTimeout.
RUN_TimerAssign ==
  /\ adapter = "Run"
  /\ proc.timer = "killing"
  /\ proc' = [proc EXCEPT !.timer = "fired", !.err = ErrVmrunTimeout]
  /\ UNCHANGED <<adapter, handle>>

\* e := cmd.Wait() returns once the command has ended.
RUN_Wait ==
  /\ adapter = "Run"
  /\ proc.at = "Wait"
  /\ proc.process # "running"
  /\ proc' = [proc EXCEPT !.at = "Stop"]
  /\ UNCHANGED <<adapter, handle>>

\* timer.Stop(): a timer that has not fired never will; a callback that has
\* started is not waited for.
RUN_Stop ==
  /\ adapter = "Run"
  /\ proc.at = "Stop"
  /\ proc' = [proc EXCEPT !.at = "return",
                          !.timer = IF @ = "armed" THEN "stopped" ELSE @]
  /\ UNCHANGED <<adapter, handle>>

\* if err != nil || e != nil { err = lvm.WrapErrors(err, e) }; return err
RUN_Return ==
  /\ adapter = "Run"
  /\ proc.at = "return"
  /\ proc' = [proc EXCEPT !.at = "returned", !.result = WrapErrors(proc.err, proc.e)]
  /\ UNCHANGED <<adapter, handle>>

RUNNext ==
  \/ RUN_Exit
  \/ RUN_TimerKill
  \/ RUN_TimerAssign
  \/ RUN_Wait
  \/ RUN_Stop
  \/ RUN_Return

\* GetName of the adapters that keep the name in the handle (OpenStack, both
\* Azure ARM adapters, GCE, Azure and vmrun): return vm.Name.
GetName ==
  /\ adapter \in Adapters \ {"exoscale"}
  /\ Begin("GetName")
  /\ calls' = <<>>
  /\ ReturnNoPoll(Nil, vm.Name)
  /\ UNCHANGED <<adapter, proc, vm, be>>

(***************************************************************************)
(* util.Random.                                                            *)
(***************************************************************************)
\* rand.Intn(n): panics unless n > 0, else any value of 0..n-1.
Intn(n) == IF n <= 0 THEN {} ELSE 0..(n - 1)

\* Random(min, max): min when the two are equal, a panic when max < min,
\* else rand.Intn(max-min+1) + min in the arithmetic of int.
RND_Random ==
  /\ adapter = "Random"
  /\ proc.at = "called"
  /\ IF proc.min = proc.max
       THEN proc' = [proc EXCEPT !.at = "returned", !.v = proc.min]
     ELSE IF proc.max < proc.min
       THEN proc' = [proc EXCEPT !.at = "panicked"]
     ELSE LET n == Int_(Int_(proc.max - proc.min) + 1) IN
          IF Intn(n) = {}
            THEN proc' = [proc EXCEPT !.at = "panicked"]
            ELSE \E k \in Intn(n) :
                   proc' = [proc EXCEPT !.at = "returned", !.v = Int_(k + proc.min)]
  /\ UNCHANGED <<adapter, handle>>

(***************************************************************************)
(* exoscale WaitVMCreation: the polling goroutine and the select of the    *)
(* caller, step by step.                                                   *)
(***************************************************************************)
\* The goroutine sends queryAsyncJobResult.  After an error it goes to send
\* it on errCh; an answer that does not decode goes to errCh too; a
\* completed job goes to jobCh; after any other answer it sleeps and asks
\* again.
WV_Request ==
  /\ adapter = "WaitVMCreation"
  /\ proc.g = "Request"
  /\ proc.n < MaxRequests
  /\ \E a \in JobAnswers \ {"timeout"} :
       proc' = [proc EXCEPT !.n = @ + 1,
                            !.g = CASE a = "error" -> "SendErr1"
                                    [] a = "garbled" -> "SendErr2"
                                    [] a = "done" -> "SendJob"
                                    [] OTHER -> "Request"]
  /\ UNCHANGED <<adapter, handle>>

\* errCh <- err, which blocks while the channel is full.  After the error of
\* the request the empty answer does not decode either: a second send; then
\* Jobstatus is not 1 and the loop goes on.
WV_SendErr ==
  /\ adapter = "WaitVMCreation"
  /\ proc.g \in {"SendErr1", "SendErr2"}
  /\ proc.errCh = 0
  /\ proc' = [proc EXCEPT !.errCh = 1,
                          !.g = IF @ = "SendErr1" THEN "SendErr2" ELSE "Request"]
  /\ UNCHANGED <<adapter, handle>>

\* jobCh <- jobResult; break
WV_SendJob ==
  /\ adapter = "WaitVMCreation"
  /\ proc.g = "SendJob"
  /\ proc.jobCh = 0
  /\ proc' = [proc EXCEPT !.jobCh = 1, !.g = "ended"]
  /\ UNCHANGED <<adapter, handle>>

\* The select of the caller takes a case that is ready: the job, an error,
\* or the end of timeoutSeconds; WaitVMCreation returns.
WV_Select ==
  /\ adapter = "WaitVMCreation"
  /\ proc.at = "select"
  /\ \/ /\ proc.jobCh = 1
        /\ proc' = [proc EXCEPT !.jobCh = 0, !.at = "returned", !.result = "nil"]
     \/ /\ proc.errCh = 1
        /\ proc' = [proc EXCEPT !.errCh = 0, !.at = "returned", !.result = "error"]
     \/ proc' = [proc EXCEPT !.at = "returned", !.result = "timeout"]
  /\ UNCHANGED <<adapter, handle>>

(***************************************************************************)
(* vmrun waitUntilReady: the caller, the Start goroutine and the           *)
(* IP-polling goroutine, step by step.  A timer is a case of its select    *)
(* that can be taken at any time.                                          *)
(***************************************************************************)
\* go func() { err := vm.Start(); errorChannel <- err }()
WR_Start ==
  /\ adapter = "waitUntilReady"
  /\ proc.start = "Start"
  /\ Len(proc.errorChannel) < 1
  /\ \E err \in {Nil, E("Errstart")} :
       proc' = [proc EXCEPT !.start = "ended", !.errorChannel = <<err>>]
  /\ UNCHANGED <<adapter, handle>>

\* The first select: the error of Start returns, its nil goes on to the
\* second part, which starts the IP-polling goroutine; the timer returns
\* ErrVMBootTimeout.
WR_Select1 ==
  /\ adapter = "waitUntilReady"
  /\ proc.at = "select1"
  /\ \/ /\ proc.errorChannel # <<>>
        /\ LET e == Head(proc.errorChannel) IN
           proc' = IF e # Nil
                     THEN [proc EXCEPT !.errorChannel = <<>>, !.at = "returned", !.r = e]
                     ELSE [proc EXCEPT !.errorChannel = <<>>, !.at = "select2",
                                       !.poller = "select"]
     \/ proc' = [proc EXCEPT !.at = "returned", !.r = ErrVMBootTimeout]
  /\ UNCHANGED <<adapter, handle>>

\* The select of the IP-polling goroutine: quit if it is there, else
\* (default) requestIPs, which stores what it found in vm.ips; with no
\* address the goroutine sleeps, with one it goes to send true.
WR_Poll ==
  /\ adapter = "waitUntilReady"
  /\ proc.poller = "select"
  /\ IF proc.quit # <<>>
       THEN proc' = [proc EXCEPT !.quit = <<>>, !.poller = "sendFalse"]
       ELSE \E found \in BOOLEAN :
              proc' = [proc EXCEPT !.ips = found,
                                   !.poller = IF found THEN "sendTrue" ELSE "Sleep"]
  /\ UNCHANGED <<adapter, handle>>

\* time.Sleep(2 * time.Second); continue
WR_Sleep ==
  /\ adapter = "waitUntilReady"
  /\ proc.poller = "Sleep"
  /\ proc' = [proc EXCEPT !.poller = "select"]
  /\ UNCHANGED <<adapter, handle>>

\* success <- true or success <- false, then return (and wg.Done).
WR_Send ==
  /\ adapter = "waitUntilReady"
  /\ proc.poller \in {"sendTrue", "sendFalse"}
  /\ Len(proc.success) < 1
  /\ proc' = [proc EXCEPT !.success = <<proc.poller = "sendTrue">>,
                          !.poller = "ended"]
  /\ UNCHANGED <<adapter, handle>>

\* The second select with a timer case that does not send quit.
WR_Select2NoQuit ==
  /\ adapter = "waitUntilReady"
  /\ proc.at = "select2"
  /\ \/ /\ proc.success # <<>>
        /\ proc' = [proc EXCEPT !.success = <<>>, !.at = "Wait",
                                !.r = IF Head(proc.success) THEN Nil ELSE ErrVMNoIP]
     \/ proc' = [proc EXCEPT !.at = "Wait", !.r = ErrVMBootTimeout]
  /\ UNCHANGED <<adapter, handle>>

\* The second select: a value of success (false gives ErrVMNoIP), or the
\* timer, which sends quit and gives ErrVMBootTimeout.
WR_Select2 ==
  /\ adapter = "waitUntilReady"
  /\ proc.at = "select2"
  /\ \/ /\ proc.success # <<>>
        /\ proc' = [proc EXCEPT !.success = <<>>, !.at = "Wait",
                                !.r = IF Head(proc.success) THEN Nil ELSE ErrVMNoIP]
     \/ /\ Len(proc.quit) < 1
        /\ proc' = [proc EXCEPT !.quit = <<TRUE>>, !.at = "Wait",
                                !.r = ErrVMBootTimeout]
  /\ UNCHANGED <<adapter, handle>>

\* wg.Wait(); return r
WR_Wait ==
  /\ adapter = "waitUntilReady"
  /\ proc.at = "Wait"
  /\ proc.poller = "ended"
  /\ proc' = [proc EXCEPT !.at = "returned"]
  /\ UNCHANGED <<adapter, handle>>

WRNext ==
  \/ WR_Start
  \/ WR_Select1
  \/ WR_Poll
  \/ WR_Sleep
  \/ WR_Send
  \/ WR_Select2
  \/ WR_Wait

Next ==
  \/ GetName
  \/ WRNext
  \/ WV_Request
  \/ WV_SendErr
  \/ WV_SendJob
  \/ WV_Select
  \/ RND_Random
  \/ OSNext \/ ARM1Next \/ ARM2Next \/ GCENext \/ EXONext \/ AZNext \/ VMRNext
  \/ GCNext
  \/ RUNNext

Spec == Init /\ [][Next]_vars

\* The functions that are exercised apart from a VM handle, on their own.
ProcInit == Init /\ adapter \in Functions

ProcNext ==
  \/ WRNext
  \/ WV_Request
  \/ WV_SendErr
  \/ WV_SendJob
  \/ WV_Select
  \/ RND_Random
  \/ GCNext
  \/ RUNNext

\* The scheduler runs every goroutine of waitUntilReady that can take a
\* step, and a timer fires in the end.
ProcSpec == ProcInit /\ [][ProcNext]_vars

ReadyFairSpec ==
  ProcSpec
    /\ WF_vars(WR_Start) /\ WF_vars(WR_Select1) /\ WF_vars(WR_Poll)
    /\ WF_vars(WR_Sleep) /\ WF_vars(WR_Send) /\ WF_vars(WR_Select2)
    /\ WF_vars(WR_Wait)

\* The handler's thread keeps running until the handler returns.
FairSpec == Spec /\ WF_vars(pc # "idle" /\ Next)

(***************************************************************************)
(* Properties.                                                             *)
(***************************************************************************)
\* The handler named h has returned.
Returned(h) == pc = "idle" /\ op = h

\* The errors by which a handler refuses a handle without an identifier;
\* the refusal of an adapter that has no Suspend or Resume is counted too.
PreconditionErrors ==
  {ErrNoInstanceID, E("ErrNeedID"), ErrSuspendNotSupported, ErrResumeNotSupported,
   E("Suspend action not supported by GCE"), E("Resume action not supported by GCE")}

\* The poll loops of the adapters.
PollLoops ==
  {"waitUntil", "waitUntilVolume", "destroyWait", "PollAsNeeded", "armWait",
   "pullOperationStatus", "waitForReady"}

IsPrefix(h, s) == Len(h) <= Len(s) /\ \A j \in 1..Len(h) : h[j] = s[j]

Last(h) == h[Len(h)]

\* C1: Start, Halt, Suspend, Resume, GetIPs or Destroy on a handle whose
\* instance identifier is empty returns a precondition error and issues no
\* backend call (no client construction, no status query), in every adapter:
\* once such a handler runs on such a handle, it has returned, with a
\* precondition error, and its log of backend calls is empty.
C1_EmptyIDRefusedWithoutBackendCall ==
  (op \in {"Start", "Halt", "Suspend", "Resume", "GetIPs", "Destroy"}
     /\ vm.InstanceID = "")
    => (pc = "idle" /\ ret \in PreconditionErrors /\ calls = <<>>)

\* The statuses the backend shows while a machine stops, as the adapter's
\* Halt reads them.  OpenStack's statuses name no stopping one: BUILD stands
\* for a status that is neither ACTIVE nor SHUTOFF nor ERROR.
HaltSequence ==
  IF adapter = "openstack" THEN <<StateActive, "BUILD", StateShutOff>>
                           ELSE <<Running, "VM stopping", Stopped>>

\* C2: when the backend reports Running, Stopping, Stopped after the stop
\* request, Halt returns success, and only after the third probe: while the
\* probes so far are a proper prefix of that sequence Halt is still in its
\* poll loop, and once they are the whole sequence Halt has returned success.
C2_HaltReturnsOnThirdProbe ==
  (op = "Halt" /\ loop \in PollLoops /\ hist # <<>> /\ IsPrefix(hist, HaltSequence))
    => IF hist = HaltSequence THEN pc = "idle" /\ ret = Nil
                              ELSE pc = loop

\* C3: every poll loop of every adapter terminates: a handler that is in a
\* poll loop leaves it.
C3_EveryPollLoopTerminates ==
  \A l \in PollLoops : (pc = l) ~> (pc # l)

\* The statuses a machine shows while it comes up, as the loop that waits
\* for it to run reads them: two that are not yet the target, then the
\* target.
PendingSequence ==
  IF adapter = "openstack" THEN <<"BUILD", "BUILD", StateActive>>
                           ELSE <<"Starting", "Starting", "Running">>

\* C4: a poll over pending, pending, running with target running returns
\* success after exactly 3 probes: while the probes so far are a proper
\* prefix of the sequence the loop goes on (it has returned nothing), and
\* once they are the whole sequence the loop has returned success from its
\* third iteration and probes no more.
C4_ReturnsOnTheThirdProbe ==
  (loop \in {"waitUntil", "waitForReady"} /\ target = VMRunning
     /\ IsPrefix(hist, PendingSequence))
    => IF hist = PendingSequence
         THEN pc # loop /\ perr = Nil /\ i = 2
         ELSE pc = loop /\ perr = E("none") /\ i = Len(hist)

C4_Witness ==
  /\ loop = "waitUntil"
  /\ op = "Provision"
  /\ hist = <<"BUILD", "BUILD", StateActive>>
  /\ perr = Nil
  /\ pc = "Provision_floatingIP"

\* The answers a loop classifies as fatal.
FatalValues(l) ==
  CASE l \in {"waitUntil", "destroyWait"} -> {StateError}
    [] l = "waitUntilVolume" -> {"error", volumeStateErrorDeleting}
    [] l = "pullOperationStatus" -> {"DONE(error)"}
    [] OTHER -> {}

\* C5: when a probe answers a fatal value (a backend error status, an
\* operation DONE with an error) before the target, the poll returns right
\* after that probe with an error that is not the timeout error, and probes
\* no more: a fatal value is the last answer of its loop's record, the loop
\* has returned, and what it returned is an error other than the timeout.
C5_FatalValueEndsThePoll ==
  \A j \in 1..Len(hist) :
    hist[j] \in FatalValues(loop)
      => /\ j = Len(hist)
         /\ pc # loop
         /\ perr \notin {Nil, E("none"), ErrActionTimeout}

C5_Witness ==
  /\ loop = "waitUntil"
  /\ hist = <<"BUILD", StateError>>
  /\ pc = "idle"
  /\ perr = Wrap("ErrFailedToBringVM", VMRunning)
  /\ ret = perr

\* The loops that count their probes, and the count each one allows.
BoundedLoops ==
  {"waitUntil", "waitUntilVolume", "destroyWait", "armWait", "waitForReady"}

Timeout(l) ==
  CASE l \in {"waitUntil", "destroyWait"} -> ActionTimeout
    [] l = "waitUntilVolume" -> VolumeActionTimeout
    [] l = "armWait" -> actionTimeout
    [] OTHER -> WaitForReadyTimeout

\* The error by which a loop reports its timeout.
TimeoutError(l) ==
  IF l = "waitForReady" THEN Wrap("errMsgTimeout", "Running") ELSE ErrActionTimeout

\* The canonical state a loop reads from the answer of its probe.
Translated(l, raw) ==
  CASE l = "waitUntil" -> openstackTranslateState(raw)
    [] l = "armWait" -> armTranslateState(raw)
    [] l = "waitForReady" -> azureTranslateState(raw)
    [] OTHER -> raw

\* The answer raw gives the loop no reason to return: it is a status, not
\* the awaited one and not a fatal one.
Quiet(l, raw) ==
  CASE l = "waitUntil" ->
         raw \in OSStatuses /\ Translated(l, raw) \notin {target, VMError}
    [] l = "destroyWait" -> raw \in OSStatuses \ {StateError}
    [] l = "waitUntilVolume" ->
         raw \in VolStatuses \ {target, "error", volumeStateErrorDeleting}
    [] l = "armWait" ->
         raw \in ARMStatuses /\ (op = "Destroy" \/ Translated(l, raw) # target)
    [] l = "waitForReady" ->
         raw \in AzureStatuses /\ Translated(l, raw) # target
    [] OTHER -> FALSE

\* The loop has used up its probes without a reason to return earlier.
TimedOut ==
  /\ loop \in BoundedLoops
  /\ pc # loop
  /\ Len(hist) = Timeout(loop)
  /\ Quiet(loop, Last(hist))

TranslatingAdapters == {"openstack", "armv1", "arm", "azure"}

Translator(ad, raw) ==
  CASE ad = "openstack" -> openstackTranslateState(raw)
    [] ad \in {"armv1", "arm"} -> armTranslateState(raw)
    [] OTHER -> azureTranslateState(raw)

\* The status strings each translator names.
Recognized(ad) ==
  CASE ad = "openstack" -> {StateActive, StateShutOff, StateError}
    [] ad \in {"armv1", "arm"} ->
         {"VM starting", "VM deploying", Running, Stopped, "VM deleting",
          "VM suspending"}
    [] OTHER ->
         {"Starting", "Deploying", "Running", "Suspended", "Deleting",
          "Suspending", "RunningTransitioning"}

C8_GetStateReturnsACanonicalToken ==
  (Returned("GetState") /\ ret = Nil) => out \in CanonicalStates

\* The backend tokens that report a terminal failure: the status of a
\* server in error, the provisioning state of a failed deployment.
FailureTokens == {StateError, "Failed"}

\* C9: a backend token that reports a terminal failure is translated to the
\* canonical error state, and a poll treats it as fatal: when the last
\* answer of the backend is such a token, the adapter's translator gives
\* error for it, a GetState that returned it returned error, and a poll
\* that observed it has returned an error.
C9_FailureIsErrorAndFatal ==
  (hist # <<>> /\ Last(hist) \in FailureTokens /\ adapter \in TranslatingAdapters)
    => /\ Translator(adapter, Last(hist)) = VMError
       /\ (Returned("GetState") /\ ret = Nil) => out = VMError
       /\ loop \in PollLoops => (pc # loop /\ perr \notin {Nil, E("none")})

\* C10: after any Provision run, whether it succeeded or failed, every
\* side-resource it created on the backend (floating IP, volume) is
\* recorded in the handle, where Destroy finds it.
C10_CreatedSideResourcesAreRecorded ==
  (Returned("Provision") /\ adapter = "openstack")
    => /\ be.fip # "none" => vm.FloatingIP
       /\ be.vol # "none" => vm.VolumeID # ""

\* The calls of a log, and the place of a call in it (0: not made).
Range(log) == {log[j] : j \in 1..Len(log)}

Pos(call, log) ==
  IF call \in Range(log) THEN CHOOSE j \in 1..Len(log) : log[j] = call ELSE 0

\* Both calls were made, a before b.
Before(a, b, log) == (a \in Range(log) /\ b \in Range(log)) => Pos(a, log) < Pos(b, log)

\* The call by which Destroy deletes the primary instance, and the calls by
\* which it deletes side-resources, in the order in which Provision created
\* those (OpenStack: the floating IP, then the volume; ARM: the deployment
\* creates the public address, then the interface that depends on it, then
\* the machine with its disk).
InstanceDelete ==
  IF adapter = "openstack" THEN "servers.Delete" ELSE "Delete"

SideDeletes ==
  IF adapter = "openstack" THEN <<"floatingip.Delete", "volumes.Delete">>
  ELSE <<"deletePublicIP", "deleteNic", "deleteOSFile">>

\* The adapters whose Destroy tears down side-resources.
TeardownAdapters == {"openstack", "armv1", "arm"}

\* The order the backend's dependencies ask of the delete calls: a resource
\* goes before the resources it depends on.  OpenStack: the floating IP and
\* the volume are attached to the server.  ARM: the machine depends on its
\* interface and uses its disk, the interface depends on the address.
TeardownOrder ==
  IF adapter = "openstack"
    THEN {<<"floatingip.Delete", "servers.Delete">>,
          <<"volumes.Delete", "servers.Delete">>}
    ELSE {<<"Delete", "deleteOSFile">>, <<"Delete", "deleteNic">>,
          <<"deleteNic", "deletePublicIP">>}

TeardownErrors ==
  {"ErrDisassociateFloatingIP", "ErrDetachVolume", "ErrServersDelete",
   "ErrInstances.Delete", "Errstop"}

\* C12: a Destroy invoked directly after a Destroy that fully succeeded
\* returns success or a well-defined already-destroyed result: it does not
\* fail at a teardown step on a resource the first call removed.
C12_SecondDestroySucceeds ==
  [][(Returned("Destroy") /\ ret = Nil /\ op' = "Destroy" /\ pc' = "idle")
       => ret'.err \notin TeardownErrors]_vars

\* C13: when Destroy failed partway, a re-invoked Destroy treats the
\* side-resources that the earlier call removed as done and fails only on
\* resources that are still present: while the instance is still there, a
\* Destroy that returns the error of the teardown step of a side-resource
\* the handle records has found that resource on the backend.
C13_DestroyFailsOnlyOnPresentResources ==
  (Returned("Destroy") /\ adapter = "openstack" /\ be.server = "up")
    => /\ ret.err = "ErrDisassociateFloatingIP" => be.fip # "none"
       /\ (ret = Wrap("ErrDetachVolume", "volumeattach.Delete") /\ vm.VolumeID # "")
            => be.vol # "none"

\* The adapters whose handle has an instance identifier that the backend
\* assigns.
IdentifiedAdapters == {"openstack", "exoscale"}

\* C14: after a Destroy that succeeded the instance identifier of the
\* handle is empty.
C14_DestroyClearsTheIdentifier ==
  (Returned("Destroy") /\ ret = Nil /\ adapter \in IdentifiedAdapters)
    => vm.InstanceID = ""

\* C15: the instance identifier is non-empty if and only if an instance
\* created through the handle is believed to exist: it is non-empty once the
\* creation has been seen to succeed (Provision, or WaitVMCreation where the
\* creation is a job), and empty again after a Destroy that succeeded and
\* left no instance on the backend.
C15_IdentifierIffInstanceBelievedToExist ==
  (pc = "idle" /\ adapter \in IdentifiedAdapters)
    => /\ (adapter = "openstack" /\ op = "Provision" /\ ret = Nil)
            => vm.InstanceID # ""
       /\ (op = "WaitVMCreation" /\ ret = Nil) => vm.InstanceID # ""
       /\ (op = "Destroy" /\ ret = Nil /\ be.server = "none")
            => vm.InstanceID = ""

\* C16: whenever Provision returns without error the machine exists and was
\* observed running: the create operation is neither in flight nor failed,
\* and the status Provision last read of the machine is the running one.
C16_ProvisionSuccessMeansRunning ==
  (Returned("Provision") /\ ret = Nil)
    => /\ be.server = "up"
       /\ adapter = "google" => hist = <<"RUNNING">>

\* C17: in Provision and Destroy, as soon as a step fails the operation
\* returns a non-nil error and the result of no step is discarded: an
\* operation whose poll returned an error (other than the not-found that
\* ends a deletion) has not returned success, and a Provision that returned
\* success has resolved every name it looked up.
C17_AFailedStepFailsTheOperation ==
  (pc = "idle" /\ op \in {"Provision", "Destroy"} /\ ret = Nil)
    => /\ perr \in {Nil, E("none"), E("ResourceNotFound"), E("NotFound")}
       /\ (adapter = "exoscale" /\ op = "Provision") => EXONames \subseteq vm.Resolved

\* A mandatory field of the handle is missing.
MissingField(v) ==
  CASE adapter = "openstack" ->
         v.FloatingIPPool = "" \/ (v.ImageID = "" /\ v.ImageName = "")
    [] adapter \in {"armv1", "arm"} -> v.Creds = ""
    [] adapter = "vmrun" -> v.Src = "" \/ v.Dst = ""
    [] OTHER -> FALSE

\* C18: when a mandatory field is missing, Provision returns a precondition
\* error before any backend call is made.
C18_MissingFieldRefusedBeforeAnyCall ==
  (op = "Provision" /\ MissingField(vm))
    => /\ calls = <<>>
       /\ pc = "idle"
       /\ ret # Nil

\* The lookups by name that Provision makes: the request, the number of
\* entries of the catalog that bear the name, the errors with which the lookup
\* refuses, and the create call that follows the lookups.
NameLookups ==
  CASE adapter = "openstack" ->
         {[call |-> "images.ListDetail", matches |-> be.images,
           errs |-> {"ErrSearchingImage"}, create |-> "servers.Create"]}
    [] adapter = "exoscale" ->
         {[call |-> "listTemplates", matches |-> be.templates,
           errs |-> {"ErrGettingTemplateID", "ErrTemplateNotFound"},
           create |-> "deployVirtualMachine"],
          [call |-> "listServiceOfferings", matches |-> be.offerings,
           errs |-> {"ErrGettingServiceOfferingID", "ErrExpectedOneServiceOffering"},
           create |-> "deployVirtualMachine"],
          [call |-> "listZones", matches |-> be.zones,
           errs |-> {"ErrGettingZonesID", "ErrZoneNotFound"},
           create |-> "deployVirtualMachine"]}
    [] OTHER -> {}

\* C19: when Provision looks a name up and the catalog holds zero entries or
\* more than one entry of that name, Provision returns at once with an error
\* of that lookup and issues no create call.
C19_UnresolvedNameFailsBeforeCreate ==
  [][(pc = "idle" /\ op' = "Provision")
       => \A l \in NameLookups :
            (l.matches \in {"zero", "many"} /\ l.call \in Range(calls'))
              => /\ pc' = "idle"
                 /\ ret'.err \in l.errs
                 /\ l.create \notin Range(calls')]_vars

\* The adapters whose backend has no suspend and resume.
NoSuspendAdapters == Adapters \ {"vmrun"}

\* The error with which the adapter refuses the operation h.
NotSupported(h) ==
  IF adapter = "google" THEN E(h \o " action not supported by GCE")
  ELSE IF h = "Suspend" THEN ErrSuspendNotSupported
  ELSE ErrResumeNotSupported

\* C20: on an adapter whose backend lacks the primitive, Suspend and Resume
\* return the not-supported error in every state of the handle, issue no
\* backend call and leave the handle and the backend as they were.
C20_SuspendResumeNotSupported ==
  [][(pc = "idle" /\ op' \in {"Suspend", "Resume"} /\ adapter \in NoSuspendAdapters)
       => /\ pc' = "idle"
          /\ ret' = NotSupported(op')
          /\ calls' = <<>>
          /\ vm' = vm
          /\ be' = be]_vars

\* Suspend has been refused on an OpenStack handle that has provisioned a
\* machine.
C20_Witness ==
  /\ Returned("Suspend")
  /\ adapter = "openstack"
  /\ vm.InstanceID # ""
  /\ be.server = "up"
  /\ ret = ErrSuspendNotSupported
  /\ calls = <<>>

\* The adapters whose GetIPs the addresses of the machine are modelled for.
IPAdapters == {"openstack", "google", "exoscale"}

\* The addresses a text of the record stands for.
Listed(text) ==
  CHOOSE addr \in AddressAnswers \cup EXOAddressAnswers : AddrText(addr) = text

\* C21: whenever GetIPs returns without error the list has two slots, the
\* first holds the public address of the machine and the second its private
\* address, and the slot of an address the machine does not have holds the
\* zero value.
C21_GetIPsSlots ==
  (Returned("GetIPs") /\ adapter \in IPAdapters /\ ret = Nil)
    => /\ DOMAIN out = {PublicIP, PrivateIP}
       /\ out[PublicIP] = ParseIP(Listed(hist[1]).public)
       /\ out[PrivateIP] = ParseIP(Listed(hist[1]).private)

\* C22: under every interleaving of the goroutines that call getClient,
\* the client is constructed successfully at most once and only by the
\* goroutine that holds the mutex, every call that has returned without
\* error has returned the cached client, and once a client is cached no call
\* authenticates again.
C22_ClientBuiltOnceUnderTheMutex ==
  [][adapter = "getClient"
       => /\ proc'.built <= 1
          /\ \A t \in Goroutines :
               (proc'.at[t] = "done" /\ proc'.res[t].err = Nil)
                 => (proc'.client # 0 /\ proc'.res[t].client = proc'.client)
          /\ proc'.auths # proc.auths
               => (\E t \in Goroutines : proc.mu = t /\ proc.at[t] = "construct")
          /\ proc.client # 0 => (proc'.auths = proc.auths /\ proc'.client = proc.client)]_vars

\* Both goroutines went into getClient before a client was cached, one built
\* it, and every call that was made has returned it.
C22_Witness ==
  /\ adapter = "getClient"
  /\ proc.ncalls = MaxGetClientCalls
  /\ proc.built = 1
  /\ \A t \in Goroutines :
       proc.at[t] = "done" /\ proc.res[t].err = Nil
         /\ proc.res[t].client = proc.client

\* C23: no adapter swallows a backend error: when the handle names an
\* instance that the backend does not have, so that the query for it fails,
\* GetState and GetIPs return a non-nil error.
C23_NoBackendErrorIsSwallowed ==
  [][(pc = "idle" /\ op' \in {"GetState", "GetIPs"} /\ adapter \in IPAdapters
        /\ vm.InstanceID # "" /\ be.server = "none")
       => (pc' = "idle" /\ ret' # Nil)]_vars

\* C24: when the command had not finished after vmrunTimeout and the timer
\* killed it, the error Run returns includes ErrVmrunTimeout, however the
\* callback of the timer and the caller interleave.
C24_TimeoutErrorIsReturned ==
  (adapter = "Run" /\ proc.at = "returned" /\ proc.process = "killed")
    => ErrVmrunTimeout \in proc.result

C26_GetNameReadsTheHandle ==
  [][(adapter \in Adapters /\ pc = "idle" /\ op' = "GetName")
       => (pc' = "idle" /\ out' = vm.Name /\ calls' = <<>> /\ vm' = vm)]_vars

\* The adapters whose GetSSH is modelled, and the address of the slot GetSSH
\* connects to: the public slot (OpenStack), the first address (Exoscale).
SSHAdapters == {"openstack", "exoscale"}

Slot(addr) ==
  IF adapter = "openstack" THEN ParseIP(addr.public)
  ELSE IF exoIPs(addr) = <<>> THEN NoIP ELSE exoIPs(addr)[1]

\* C27: when the machine has no address for the slot GetSSH connects to,
\* GetSSH returns an error and no session; it never returns a client for a
\* zero-value address.
C27_GetSSHNeedsAUsableAddress ==
  (Returned("GetSSH") /\ adapter \in SSHAdapters)
    => /\ Slot(Listed(hist[1])) = NoIP => (ret # Nil /\ out = NoOut)
       /\ out # SSHClient(NoIP)

\* C28: for min <= max, Random(min, max) returns a value between min and
\* max, which is min when the two are equal; for max < min it panics.
C28_RandomStaysInRange ==
  (adapter = "Random" /\ proc.at # "called")
    => /\ proc.min <= proc.max
            => (proc.at = "returned" /\ proc.min <= proc.v /\ proc.v <= proc.max)
       /\ proc.min = proc.max => proc.v = proc.min
       /\ proc.max < proc.min => proc.at = "panicked"

\* The backend calls a step issues: those it adds to the log of the handler.
NewCalls ==
  IF pc = "idle" THEN calls' ELSE SubSeq(calls', Len(calls) + 1, Len(calls'))

Issued(call) == \E k \in DOMAIN NewCalls : NewCalls[k] = call

\* The last answer of the poll loop that has just ended.
Observed(value) == hist # <<>> /\ Last(hist) = value

\* C30: in a Provision or Destroy of the OpenStack adapter, the floating IP
\* is created only after the server was seen running, the volume is attached
\* only after it was seen available, the volume is deleted only after it was
\* seen detached, and the server is deleted only when the floating IP and the
\* volume of the handle are removed.
C30_StepsWaitForTheTerminalState ==
  [][(adapter = "openstack" /\ op' \in {"Provision", "Destroy"})
       => /\ Issued("floatingip.Create") => Observed(StateActive)
          /\ Issued("volumeattach.Create") => Observed(volumeStateAvailable)
          /\ Issued("volumes.Delete") => Observed(volumeStateAvailable)
          /\ Issued("servers.Delete")
               => /\ vm.FloatingIP => be'.fip = "none"
                  /\ vm.VolumeID # "" => be'.vol = "none"]_vars

\* C31: the wait at the end of the OpenStack Destroy returns success only
\* when the server is absent from the backend, an error when the status
\* ERROR was seen, and ErrActionTimeout when the server was still there at
\* each of ActionTimeout probes.
C31_DestroyConfirmsAbsence ==
  (Returned("Destroy") /\ adapter = "openstack" /\ loop = "destroyWait")
    => /\ ret = Nil => be.server = "none"
       /\ Last(hist) = StateError => ret # Nil
       /\ (Len(hist) = ActionTimeout /\ Last(hist) \in {StateActive, StateShutOff, "BUILD"})
            => ret = ErrActionTimeout

\* C32: once WaitVMCreation has returned, no request is sent on its behalf
\* any more: the count of the requests of its goroutine stays what it was.
C32_NoRequestAfterReturn ==
  [][(adapter = "WaitVMCreation" /\ proc.at = "returned") => proc'.n = proc.n]_vars

\* C33: vmrun waitUntilReady returns in every interleaving of its goroutines
\* and timers; when it has returned the IP-polling goroutine, if it was
\* started, has exited; it returns nil only with an address stored in vm.ips,
\* and any other return is the error of Start or ErrVMBootTimeout.
C33_ReadyReturned ==
  (adapter = "waitUntilReady" /\ proc.at = "returned")
    => /\ proc.poller \in {"none", "ended"}
       /\ proc.r = Nil => proc.ips
       /\ proc.r # Nil => proc.r \in {E("Errstart"), ErrVMBootTimeout}

C33_WaitUntilReadyTerminates ==
  /\ []C33_ReadyReturned
  /\ (adapter = "waitUntilReady") ~> (adapter = "waitUntilReady" /\ proc.at = "returned")

\* The timer of the second select fired while requestIPs found an address:
\* the goroutine has exited, the address is stored, ErrVMBootTimeout returns.
C33_Witness ==
  /\ adapter = "waitUntilReady"
  /\ proc.at = "returned"
  /\ proc.poller = "ended"
  /\ proc.r = ErrVMBootTimeout
  /\ proc.ips

\* The backend calls that create, delete, start or stop something.
StateChangingCalls ==
  {"servers.Create", "servers.Delete", "ss.Start", "ss.Stop", "floatingip.Create",
   "floatingip.Delete", "volumes.Create", "volumes.Delete", "volumeattach.Create",
   "volumeattach.Delete", "CreateOrUpdate", "Delete", "Start", "Stop", "PowerOff",
   "Instances.Insert", "Instances.Delete", "Instances.Start", "Instances.Stop",
   "deployVirtualMachine", "destroyVirtualMachine", "startVirtualMachine",
   "stopVirtualMachine", "StartRole", "ShutdownRole", "DeleteDeployment",
   "CreateDeployment", "CreateHostedService", "deleteHostedService",
   "start", "stop", "suspend", "copyDir", "RemoveAll"}

\* C34: a GetState or a GetIPs of any adapter issues no backend call that
\* creates, deletes, starts or stops something and leaves the power state of
\* the machine as it was.
C34_QueriesAreReadOnly ==
  [][(adapter \in Adapters /\ pc = "idle" /\ pc' = "idle"
        /\ op' \in {"GetState", "GetIPs"})
       => /\ \A k \in DOMAIN calls' : calls'[k] \notin StateChangingCalls
          /\ be'.server = be.server]_vars

\* A log of backend calls holds the call.
Has(log, call) == \E k \in DOMAIN log : log[k] = call

C36_TimeoutAbortsWithoutCleanup ==
  [][(op = "Provision" /\ pc # "idle" /\ perr = E("none")
        /\ perr' = TimeoutError(loop))
       => /\ pc' = "idle"
          /\ (ret' = perr' \/ ret'.detail = perr'.err)
          /\ calls' = calls
          /\ be' = be
          /\ vm'.InstanceID = vm.InstanceID
          /\ adapter = "openstack" => vm.InstanceID # ""]_vars

\* A Provision of the OpenStack adapter has returned the timeout of its
\* wait for the running server: the server is there and the handle names it.
C36_Witness ==
  /\ adapter = "openstack"
  /\ Returned("Provision")
  /\ loop = "waitUntil"
  /\ Len(hist) = ActionTimeout
  /\ perr = ErrActionTimeout
  /\ ret = ErrActionTimeout
  /\ be.server # "none"
  /\ vm.InstanceID # ""
  /\ ~Has(calls, "servers.Delete")

\* The answers of a probe on which waitUntilVolume returns at once when it
\* waits for the state t.
Decisive(t) == {"nil", t, VMError, volumeStateErrorDeleting}

\* C37: waitUntilVolume returns on the first probe whose answer decides:
\* an absent volume is success for the target "nil" and an error for any
\* other target, the status waited for is success, the status error or
\* error_deleting is an error; after VolumeActionTimeout probes that did not
\* decide it returns ErrActionTimeout, and before that it goes on.
C37_WaitUntilVolumeCases ==
  (loop = "waitUntilVolume" /\ hist # <<>>)
    => LET n == Len(hist)
           last == Last(hist)
           failed == perr \notin {E("none"), Nil, ErrActionTimeout}
       IN
       /\ n <= VolumeActionTimeout
       /\ \A k \in 1..(n - 1) : hist[k] \notin Decisive(target)
       /\ (last = "nil" /\ target = "nil") => perr = Nil
       /\ (last = "nil" /\ target # "nil") => failed
       /\ last = target => perr = Nil
       /\ (last \in {VMError, volumeStateErrorDeleting} /\ last # target) => failed
       /\ (last \notin Decisive(target) /\ n = VolumeActionTimeout)
            => perr = ErrActionTimeout
       /\ (last \notin Decisive(target) /\ n < VolumeActionTimeout)
            => (perr = E("none") /\ pc = "waitUntilVolume")

\* The wait for the deletion of a volume saw it once and then found it
\* absent.
C37_Witness ==
  /\ loop = "waitUntilVolume"
  /\ target = "nil"
  /\ Len(hist) = 2
  /\ hist[1] \notin Decisive(target)
  /\ hist[2] = "nil"
  /\ perr = Nil

\* C38: a hosted service that was there before the Provision of the handle,
\* and that the Provision reused, is still there after any handler of the
\* handle, Destroy included: a Destroy removes only what the Provision of
\* the same handle created.
C38_DestroyKeepsTheSharedService ==
  [][(adapter = "azure" /\ be.service = "shared") => be'.service = "shared"]_vars

\* C39: a call of getClient that has returned a client to a handle has
\* returned one that was built from the PublishSettings of that handle, in
\* whatever order the handles call.
C39_ClientOfTheHandlesOwnSettings ==
  adapter = "getClient"
    => \A t \in Goroutines :
         (proc.at[t] = "done" /\ proc.res[t].err = Nil)
           => proc.res[t].from = PublishSettings(t)

\* The output of vmrun list that a GetState of the vmrun adapter read
\* contains the destination path of the handle or the path it resolves to.
ListedAsRunning ==
  hist[1] \in {"Dst", "absp"} \/ (hist[1] = "neither" /\ vm.Dst = "")

\* C40: a GetState of the vmrun adapter returns running exactly when vmrun
\* list ran cleanly and its output contains the destination path of the
\* handle (or the path it resolves to); it returns suspended, without error,
\* in every other case in which vmrun list ran cleanly and the path
\* resolves, and an error when vmrun list failed or wrote to its standard
\* error or the path does not resolve; it never returns halted, so that the
\* state reported after a successful Halt is suspended.
C40_GetStateRunningOrSuspended ==
  (adapter = "vmrun" /\ Returned("GetState"))
    => /\ out # VMHalted
       /\ out = VMRunning <=> (ret = Nil /\ ListedAsRunning)
       /\ hist[1] \in {"error", "stderr"} => ret # Nil
       /\ (hist[1] = "neither" /\ ~ListedAsRunning)
            => IF be.server = "none" THEN ret # Nil
                                     ELSE ret = Nil /\ out = VMSuspended
       /\ (be.server = "halted" /\ ret = Nil) => out = VMSuspended

\* The machine was halted, vmrun list ran and does not name it: GetState
\* has returned suspended.
C40_Witness ==
  /\ adapter = "vmrun"
  /\ Returned("GetState")
  /\ be.server = "halted"
  /\ hist = <<"neither">>
  /\ ret = Nil
  /\ out = VMSuspended

\* C40 as stated: running exactly when the output contains the path, and
\* suspended without error in every other case.
C40_SuspendedInEveryOtherCase ==
  (adapter = "vmrun" /\ Returned("GetState"))
    => /\ out # VMHalted
       /\ out = VMRunning <=> ListedAsRunning
       /\ ~ListedAsRunning => (ret = Nil /\ out = VMSuspended)

====
